---- MODULE Spec2Model ----
(***************************************************************************)
(* A model of the PPG processing pipeline of ppg-processor:                *)
(*   - the PPI computation of the workers (sort, diff, dropna, band),      *)
(*   - calculate_hrv_metrics, the greedy window scan, row by row,          *)
(*   - calculate_metrics, the metric formulas, in exact rational numbers,  *)
(*   - the time-of-day filter of the directory worker,                     *)
(*   - read_ppg_file, the timestamp reconstruction,                        *)
(*   - BatchWorker.run over participant folders, with stop and progress,   *)
(*   - DirectoryProcessingWorker.run over epoch folders,                   *)
(*   - PPGProcessingWorker.run over the channels and windows of one file.  *)
(* Timestamps are integers in milliseconds; a pandas DataFrame is a record *)
(* of its column names and its rows.                                       *)
(***************************************************************************)
EXTENDS Integers, Sequences, FiniteSets, TLC

VARIABLES
    \* PPI computation of one recording unit / channel
    beats, ppi_low, ppi_high, ppi_sorted, ppi_data, ppi_pc,
    \* calculate_hrv_metrics
    data, window, row_i, current_bin, current_start_time, hrv_results, hrv_pc,
    \* calculate_metrics
    m_ppi, m_quality, m_out, m_pc,
    \* time-of-day filter of the directory worker
    use_time_range, start_time, end_time, ppg_index, tr_kept, tr_time, tr_pc,
    \* read_ppg_file
    rd_file, rd_out, rd_pc,
    \* BatchWorker
    participant_folders, calculate_hrv, b_channels, b_time_range,
    pandas_drops_nuisance, b_i, results, is_running, should_stop, b_progress,
    error_emitted, finished_emitted, b_pc,
    \* DirectoryProcessingWorker run on its own
    d_cfg, d_folders, d_i, d_results, d_should_stop, d_progress, d_status,
    d_error, d_finished, d_pc,
    \* PPGProcessingWorker (single file)
    f_channels, f_file, f_i, f_j, f_results, f_progress, f_status, f_error,
    f_finished, f_pc

ppi_vars == <<beats, ppi_low, ppi_high, ppi_sorted, ppi_data, ppi_pc>>
hrv_vars == <<data, window, row_i, current_bin, current_start_time, hrv_results, hrv_pc>>
met_vars == <<m_ppi, m_quality, m_out, m_pc>>
tr_vars == <<use_time_range, start_time, end_time, ppg_index, tr_kept, tr_time, tr_pc>>
rd_vars == <<rd_file, rd_out, rd_pc>>
b_vars == <<participant_folders, calculate_hrv, b_channels, b_time_range,
            pandas_drops_nuisance, b_i, results, is_running, should_stop, b_progress,
            error_emitted, finished_emitted, b_pc>>
d_vars == <<d_cfg, d_folders, d_i, d_results, d_should_stop, d_progress, d_status,
            d_error, d_finished, d_pc>>
f_vars == <<f_channels, f_file, f_i, f_j, f_results, f_progress, f_status, f_error,
            f_finished, f_pc>>
vars == <<ppi_vars, hrv_vars, met_vars, tr_vars, rd_vars, b_vars, d_vars, f_vars>>

\* what each component leaves alone
ppi_others == <<hrv_vars, met_vars, tr_vars, rd_vars, b_vars, d_vars, f_vars>>
hrv_others == <<ppi_vars, met_vars, tr_vars, rd_vars, b_vars, d_vars, f_vars>>
met_others == <<ppi_vars, hrv_vars, tr_vars, rd_vars, b_vars, d_vars, f_vars>>
tr_others == <<ppi_vars, hrv_vars, met_vars, rd_vars, b_vars, d_vars, f_vars>>
rd_others == <<ppi_vars, hrv_vars, met_vars, tr_vars, b_vars, d_vars, f_vars>>
b_others == <<ppi_vars, hrv_vars, met_vars, tr_vars, rd_vars, d_vars, f_vars>>
d_others == <<ppi_vars, hrv_vars, met_vars, tr_vars, rd_vars, b_vars, f_vars>>
f_others == <<ppi_vars, hrv_vars, met_vars, tr_vars, rd_vars, b_vars, d_vars>>

----------------------------------------------------------------------------
(* Bounds of the model *)

MaxBeats == 4      \* detected beats of one recording unit
MaxRows == 5       \* PPI records handed to calculate_hrv_metrics
MaxBin == 4        \* PPI values handed to calculate_metrics
MaxSamples == 3    \* samples of the table handed to the time-of-day filter
MaxFileRows == 4   \* rows of a raw file (the literal 11-row files come on top)
MaxParticipants == 3   \* participant folders of one batch
MaxFolders == 3    \* epoch folders of one directory run
MaxWindows == 3    \* window groups of one file

----------------------------------------------------------------------------
(* Generic helpers *)

Range(s) == { s[i] : i \in 1..Len(s) }

RECURSIVE SeqSum(_)
SeqSum(s) == IF s = <<>> THEN 0 ELSE Head(s) + SeqSum(Tail(s))

SeqsUpTo(S, n) == UNION { [1..k -> S] : k \in 0..n }

Abs(x) == IF x < 0 THEN -x ELSE x

RECURSIVE GCD(_, _)
GCD(a, b) == IF b = 0 THEN Abs(a) ELSE GCD(b, a % b)

\* NaN of a float column; PPI values of a time-sorted table are >= 0
NaN == -1

\* None of a Python attribute that holds a timestamp
None == -1

----------------------------------------------------------------------------
(* pandas tables *)

\* pd.DataFrame(): no columns, no rows
EmptyFrame == [columns |-> {}, rows |-> <<>>]

\* DataFrame.empty
IsEmpty(df) == df.rows = <<>>

\* None where a table is expected ("hrv_metrics" when calculate_hrv is off)
NoneFrame == [columns |-> {}, rows |-> <<>>, is_none |-> TRUE]

IsNoneFrame(df) == "is_none" \in DOMAIN df

\* every way to put row r into the time-sorted sequence s (ties in any order)
InsertSorted(s, r) ==
    { SubSeq(s, 1, k) \o <<r>> \o SubSeq(s, k + 1, Len(s)) :
        k \in { j \in 0..Len(s) :
                  /\ (j = 0 \/ s[j].Time <= r.Time)
                  /\ (j = Len(s) \/ r.Time <= s[j + 1].Time) } }

\* DataFrame.sort_values(by="Time") on the rows: the default sort is not
\* stable, so rows with equal Time may come out in any order
RECURSIVE SortValues(_)
SortValues(rows) ==
    IF rows = <<>> THEN {<<>>}
    ELSE UNION { InsertSorted(s, Head(rows)) : s \in SortValues(Tail(rows)) }

IsTimeSorted(rows) == \A i \in 1..(Len(rows) - 1) : rows[i].Time <= rows[i + 1].Time

----------------------------------------------------------------------------
(* PPI computation: directory_worker.py 192-212, file_worker.py 146-164,   *)
(* hrv_metrics.py 8-39                                                     *)

BeatTimes == {0, 667, 1000, 2000, 3001}
QualityValues == {1}
LowThresholds == {0, 667, 1000}
HighThresholds == {1000, 2000}

\* the gap of each row to the first row
DiffToFirst(rows) ==
    [i \in 1..Len(rows) |->
        [label |-> rows[i].label, Time |-> rows[i].Time, Quality |-> rows[i].Quality,
         PPI |-> IF i = 1 THEN NaN ELSE rows[i].Time - rows[1].Time]]

\* data_sample["Time"].diff().dt.total_seconds() * 1000 on time-sorted rows:
\* NaN on the first row, the gap to the previous row elsewhere.
\* Rows are [label, Time, Quality]; label is the pandas row label.
Diff(rows) ==
    [i \in 1..Len(rows) |->
        [label |-> rows[i].label, Time |-> rows[i].Time, Quality |-> rows[i].Quality,
         PPI |-> IF i = 1 THEN NaN ELSE rows[i].Time - rows[i - 1].Time]]

\* dropna(subset=["PPI"])
DropNa(rows) == SelectSeq(rows, LAMBDA r : r.PPI # NaN)

InBandNoLow(ppi, low, high) == ppi # NaN /\ ppi <= high

\* (PPI >= low) & (PPI <= high); a comparison with NaN is False
InBand(ppi, low, high) == ppi # NaN /\ ppi >= low /\ ppi <= high

\* the boolean-mask selection of the rows inside the band
BandFilter(rows, low, high) == SelectSeq(rows, LAMBDA r : InBand(r.PPI, low, high))

PPIColumns == {"Time", "Quality", "PPI"}

PPIInit ==
    /\ beats \in { [i \in 1..Len(ts) |-> [label |-> i - 1, Time |-> ts[i], Quality |-> 1]] :
                     ts \in SeqsUpTo(BeatTimes, MaxBeats) }
    /\ ppi_low \in LowThresholds
    /\ ppi_high \in HighThresholds
    /\ ppi_low <= ppi_high
    /\ ppi_sorted = <<>>
    /\ ppi_data = EmptyFrame
    /\ ppi_pc = "peaks"

\* DirectoryProcessingWorker._process_directory, lines 192-212
DirComputePPI ==
    /\ ppi_pc = "peaks"
    /\ \E s \in SortValues(beats) :
          /\ ppi_sorted' = s
          /\ ppi_data' = [columns |-> PPIColumns,
                          rows |-> BandFilter(DropNa(Diff(s)), ppi_low, ppi_high)]
    /\ ppi_pc' = "dir_done"
    /\ UNCHANGED <<beats, ppi_low, ppi_high, ppi_others>>

\* PPGProcessingWorker.run, lines 134-164: no PPI column when no beat was found
FileComputePPI ==
    /\ ppi_pc = "peaks"
    /\ \/ /\ beats = <<>>
          /\ ppi_sorted' = <<>>
          /\ ppi_data' = EmptyFrame
       \/ /\ beats # <<>>
          /\ \E s \in SortValues(beats) :
                /\ ppi_sorted' = s
                /\ ppi_data' = [columns |-> PPIColumns,
                                rows |-> BandFilter(DropNa(Diff(s)), ppi_low, ppi_high)]
    /\ ppi_pc' = "file_done"
    /\ UNCHANGED <<beats, ppi_low, ppi_high, ppi_others>>

\* clean_ppi_data(calculate_ppi(df), low, high) on a time-sorted table
CleanPPIData ==
    /\ ppi_pc = "peaks"
    /\ \E s \in SortValues(beats) :
          /\ ppi_sorted' = s
          /\ ppi_data' = [columns |-> PPIColumns,
                          rows |-> BandFilter(Diff(s), ppi_low, ppi_high)]
    /\ ppi_pc' = "clean_done"
    /\ UNCHANGED <<beats, ppi_low, ppi_high, ppi_others>>

PPINext == DirComputePPI \/ FileComputePPI \/ CleanPPIData

----------------------------------------------------------------------------
(* calculate_metrics: hrv_metrics.py 43-74.  A float is modelled by the     *)
(* exact rational it stands for, in lowest terms; the square roots (SDNN,   *)
(* RMSSD, SDSD and the two coefficients of variation) by their squares.     *)
(* PPI values are >= 0, so a value and its square determine each other.     *)

\* np.nan as a rational: the denominator 0
NaNFrac == [num |-> 0, den |-> 0]

IsNaN(f) == f.den = 0

\* a / b in lowest terms with a positive denominator; x / 0 is NaN
Frac(a, b) ==
    IF b = 0 THEN NaNFrac
    ELSE LET g == GCD(a, b)
             sgn == IF b < 0 THEN -1 ELSE 1
         IN  [num |-> sgn * (a \div g), den |-> sgn * (b \div g)]

\* f / g for rationals, NaN-propagating
FracDiv(f, g) ==
    IF IsNaN(f) \/ IsNaN(g) THEN NaNFrac ELSE Frac(f.num * g.den, f.den * g.num)

FracMul(f, g) ==
    IF IsNaN(f) \/ IsNaN(g) THEN NaNFrac ELSE Frac(f.num * g.num, f.den * g.den)

\* np.diff
NpDiff(x) == [i \in 1..(Len(x) - 1) |-> x[i + 1] - x[i]]

SumSq(x) == SeqSum([i \in 1..Len(x) |-> x[i] * x[i]])

\* np.mean
NpMean(x) == Frac(SeqSum(x), Len(x))

\* np.std(x, ddof) squared: sum(|x - mean|^2) / (n - ddof), with the
\* deviations scaled by n to stay in the integers
NpVar(x, ddof) ==
    LET n == Len(x)
        s == SeqSum(x)
    IN  IF n = 0 \/ n - ddof <= 0 THEN NaNFrac
        ELSE Frac(SumSq([i \in 1..n |-> n * x[i] - s]), n * n * (n - ddof))

RECURSIVE SortInts(_)
SortInts(x) ==
    IF x = <<>> THEN <<>>
    ELSE LET rest == SortInts(Tail(x))
             h == Head(x)
             k == Cardinality({ j \in 1..Len(rest) : rest[j] < h })
         IN  SubSeq(rest, 1, k) \o <<h>> \o SubSeq(rest, k + 1, Len(rest))

\* np.median
NpMedian(x) ==
    LET n == Len(x)
        srt == SortInts(x)
    IN  IF n = 0 THEN NaNFrac
        ELSE IF n % 2 = 1 THEN Frac(srt[(n + 1) \div 2], 1)
        ELSE Frac(srt[n \div 2] + srt[n \div 2 + 1], 2)

SDNNPopulation(ppi) == NpVar(ppi, 0)

\* np.std(ppi_data, ddof=1), squared
SDNN(ppi) == NpVar(ppi, 1)

calculate_metrics(ppi, quality) ==
    IF Len(ppi) < 2 THEN
        [MeanNN |-> NaNFrac, SDNN_sq |-> NaNFrac, RMSSD_sq |-> NaNFrac,
         SDSD_sq |-> NaNFrac, CVNN_sq |-> NaNFrac, CVSD_sq |-> NaNFrac,
         MedianNN |-> NaNFrac, Num_Data_Points |-> Len(ppi), Mean_Quality |-> NaNFrac]
    ELSE
        LET mean_nn == NpMean(ppi)
            sdnn_sq == SDNN(ppi)
            rmssd_sq == NpMean([i \in 1..(Len(ppi) - 1) |-> NpDiff(ppi)[i] * NpDiff(ppi)[i]])
            sdsd_sq == NpVar(NpDiff(ppi), 1)
        IN  [MeanNN |-> mean_nn,
             SDNN_sq |-> sdnn_sq,
             RMSSD_sq |-> rmssd_sq,
             SDSD_sq |-> sdsd_sq,
             CVNN_sq |-> IF mean_nn.num # 0
                         THEN FracDiv(sdnn_sq, FracMul(mean_nn, mean_nn)) ELSE NaNFrac,
             CVSD_sq |-> IF mean_nn.num # 0
                         THEN FracDiv(rmssd_sq, FracMul(mean_nn, mean_nn)) ELSE NaNFrac,
             MedianNN |-> NpMedian(ppi),
             Num_Data_Points |-> Len(ppi),
             Mean_Quality |-> NpMean(quality)]

PPIValues == {0, 780, 800, 820}

MetInit ==
    /\ m_ppi \in SeqsUpTo(PPIValues, MaxBin)
    /\ m_quality = [i \in 1..Len(m_ppi) |-> 1]
    /\ m_out = <<>>
    /\ m_pc = "call"

\* one call of calculate_metrics
CallCalculateMetrics ==
    /\ m_pc = "call"
    /\ m_out' = calculate_metrics(m_ppi, m_quality)
    /\ m_pc' = "returned"
    /\ UNCHANGED <<m_ppi, m_quality, met_others>>

MetNext == CallCalculateMetrics

----------------------------------------------------------------------------
(* calculate_hrv_metrics: hrv_metrics.py 78-145, one action per iteration   *)
(* of the loop over the rows and one for the code after the loop.           *)

\* timedelta(minutes=m) in milliseconds
Minutes(m) == m * 60 * 1000

HRVTimes == {0, 30000, 60000, 90000, 200000, 230000, 300000, 310000}
WindowSizes == {1, 5}
HRVPPIValues == {800}

Last(s) == s[Len(s)]

\* lines 106-113, 122-129, 135-142: the bin becomes a row of hrv_results
\* only when it holds more than one record
CloseBinAlways(bin, start, hrv_list) ==
    IF Len(bin) > 0
    THEN Append(hrv_list,
                [metrics |-> calculate_metrics([i \in 1..Len(bin) |-> bin[i].PPI],
                                               [i \in 1..Len(bin) |-> bin[i].Quality]),
                 Start_Time |-> start,
                 End_Time |-> Last(bin).Time])
    ELSE hrv_list

CloseBin(bin, start, hrv_list) ==
    IF Len(bin) > 1
    THEN Append(hrv_list,
                [metrics |-> calculate_metrics([i \in 1..Len(bin) |-> bin[i].PPI],
                                               [i \in 1..Len(bin) |-> bin[i].Quality]),
                 Start_Time |-> start,
                 End_Time |-> Last(bin).Time])
    ELSE hrv_list

WithinBudgetHours(row, start, w) == row.Time - start <= Minutes(60 * w)

\* line 100: row["Time"] - current_start_time <= timedelta(minutes=window)
WithinBudget(row, start, w) == row.Time - start <= Minutes(w)

LargeGapNever(bin, row) == FALSE

\* line 103: a non-empty bin whose last record is more than 1 minute back
LargeGap(bin, row) == Len(bin) > 0 /\ row.Time - Last(bin).Time > Minutes(1)

NewBinStartKept(row, start) == start

\* lines 116 and 132: the new bin begins at this record
NewBinStart(row, start) == row.Time

HRVInit ==
    /\ data \in { [i \in 1..Len(ts) |-> [Time |-> ts[i], PPI |-> 800, Quality |-> 1]] :
                    ts \in { t \in SeqsUpTo(HRVTimes, MaxRows) :
                               \A i \in 1..(Len(t) - 1) : t[i] <= t[i + 1] } }
    /\ window \in WindowSizes
    /\ row_i = 1
    /\ current_bin = <<>>
    /\ current_start_time = None
    /\ hrv_results = <<>>
    /\ hrv_pc = "scan"

\* the body of the loop, lines 95-132, on the scan state
\* [bin, start, results] = (current_bin, current_start_time, hrv_results)
ScanStep(st, row, w) ==
    LET \* lines 95-97
        start == IF st.start = None THEN row.Time ELSE st.start
    IN  IF WithinBudget(row, start, w)
        THEN IF LargeGap(st.bin, row)
             THEN \* lines 105-116
                  [bin |-> <<row>>, start |-> NewBinStart(row, start),
                   results |-> CloseBin(st.bin, start, st.results)]
             ELSE \* line 119
                  [bin |-> Append(st.bin, row), start |-> start, results |-> st.results]
        ELSE \* lines 121-132
             [bin |-> <<row>>, start |-> NewBinStart(row, start),
              results |-> CloseBin(st.bin, start, st.results)]

RECURSIVE ScanAll(_, _, _)
ScanAll(st, rows, w) ==
    IF rows = <<>> THEN st ELSE ScanAll(ScanStep(st, Head(rows), w), Tail(rows), w)

\* the whole function: the list hrv_results behind the returned DataFrame
calculate_hrv_metrics(rows, w) ==
    LET st == ScanAll([bin |-> <<>>, start |-> None, results |-> <<>>], rows, w)
    IN  CloseBin(st.bin, st.start, st.results)

\* one iteration of the loop, lines 94-132
ScanRow ==
    /\ hrv_pc = "scan"
    /\ row_i <= Len(data)
    /\ LET st == ScanStep([bin |-> current_bin, start |-> current_start_time,
                           results |-> hrv_results], data[row_i], window)
       IN  /\ current_bin' = st.bin
           /\ current_start_time' = st.start
           /\ hrv_results' = st.results
    /\ row_i' = row_i + 1
    /\ UNCHANGED <<data, window, hrv_pc, hrv_others>>

\* lines 134-145: close the last bin and return
CloseLastBin ==
    /\ hrv_pc = "scan"
    /\ row_i > Len(data)
    /\ hrv_results' = CloseBin(current_bin, current_start_time, hrv_results)
    /\ hrv_pc' = "done"
    /\ UNCHANGED <<data, window, row_i, current_bin, current_start_time, hrv_others>>

HRVNext == ScanRow \/ CloseLastBin

----------------------------------------------------------------------------
(* Time-of-day filter: directory_worker.py 115-139 and 195-197.  A clock    *)
(* time "HH:MM" is the pair <<HH, MM>>; a datetime.time is the number of    *)
(* milliseconds since midnight; a timestamp is milliseconds since midnight  *)
(* of day 0.                                                                *)

HourMs == 60 * 60 * 1000
DayMs == 24 * HourMs

\* datetime.datetime.strptime(s, "%H:%M"), as the time since its midnight
Strptime(hhmm) == hhmm[1] * HourMs + hhmm[2] * 60 * 1000

DeltaTimeZero == 0 * HourMs

\* line 122: delta_time = datetime.timedelta(hours=12)
DeltaTime == 12 * HourMs

\* (t + delta_time).time() and DatetimeIndex.time: the time of day
TimeOfDay(t) == t % DayMs

StartAfterEndNever(st, en) == FALSE

\* line 126: start_time > end_time, on the adjusted times
StartAfterEnd(st, en) == st > en

InTimeRangeHalfOpen(t, st, en) == TimeOfDay(t) >= st /\ TimeOfDay(t) < en

\* lines 132-134: (index.time >= start_time) & (index.time <= end_time)
InTimeRange(t, st, en) == TimeOfDay(t) >= st /\ TimeOfDay(t) <= en

ClockTimes == {<<0, 0>>, <<4, 59>>, <<5, 0>>, <<12, 0>>, <<13, 0>>, <<22, 0>>}

\* sample timestamps of one recording: 12:00, 13:30, 22:00 and 23:30 of day 1,
\* 02:00 and 05:00 of day 2
SampleTimes == {DayMs + 12 * HourMs, DayMs + 13 * HourMs + 30 * 60 * 1000,
                DayMs + 22 * HourMs, DayMs + 23 * HourMs + 30 * 60 * 1000,
                2 * DayMs + 2 * HourMs, 2 * DayMs + 5 * HourMs}

TRInit ==
    /\ use_time_range \in BOOLEAN
    /\ start_time \in ClockTimes
    /\ end_time \in ClockTimes
    /\ ppg_index \in { t \in SeqsUpTo(SampleTimes, MaxSamples) :
                         \A i \in 1..(Len(t) - 1) : t[i] < t[i + 1] }
    /\ tr_kept = <<>>
    /\ tr_time = <<>>
    /\ tr_pc = "read"

\* lines 115-139 for one epoch: the table index after the filter
ApplyTimeRange ==
    /\ tr_pc = "read"
    /\ \/ /\ ~use_time_range
          /\ tr_kept' = ppg_index
          /\ tr_pc' = "unfiltered"
       \/ /\ use_time_range
          /\ LET st == TimeOfDay(Strptime(start_time) + DeltaTime)
                 en == TimeOfDay(Strptime(end_time) + DeltaTime)
                 shifted == [i \in 1..Len(ppg_index) |-> ppg_index[i] + DeltaTime]
                 kept == SelectSeq(shifted, LAMBDA t : InTimeRange(t, st, en))
             IN  IF StartAfterEnd(st, en)
                 THEN \* lines 126-128: error.emit and return
                      /\ tr_kept' = <<>>
                      /\ tr_pc' = "config_error"
                 ELSE /\ tr_kept' = kept
                      /\ tr_pc' = IF kept = <<>> THEN "empty_skipped" ELSE "filtered"
    /\ UNCHANGED <<use_time_range, start_time, end_time, ppg_index, tr_time, tr_others>>

\* lines 195-197: the Time column of the rows that went through the filter
RevertDeltaTime ==
    /\ tr_pc \in {"filtered", "unfiltered"}
    /\ tr_time' = IF use_time_range
                  THEN [i \in 1..Len(tr_kept) |-> tr_kept[i] - DeltaTime]
                  ELSE tr_kept
    /\ tr_pc' = "done"
    /\ UNCHANGED <<use_time_range, start_time, end_time, ppg_index, tr_kept, tr_others>>

TRNext == ApplyTimeRange \/ RevertDeltaTime

TRIdle ==
    /\ use_time_range = FALSE /\ start_time = <<0, 0>> /\ end_time = <<0, 0>>
    /\ ppg_index = <<>> /\ tr_kept = <<>> /\ tr_time = <<>> /\ tr_pc = "idle"

----------------------------------------------------------------------------
(* read_ppg_file: io_utils.py 6-162.  A raw file is its first column, its   *)
(* number of columns, the start_time of the info.txt beside it (NoStart     *)
(* when the file or the line is missing) and its modification time.  A      *)
(* datetime is the pair of its whole seconds since 1970 and the             *)
(* milliseconds on top.                                                     *)

NoStart == -1

NaT == [s |-> -1, ms |-> -1]

\* pd.to_datetime(seconds, unit='s')
ToDatetime(seconds) == [s |-> seconds, ms |-> 0]

\* datetime + pd.Timedelta(milliseconds=m)
AddMs(dt, m) == [s |-> dt.s + ((dt.ms + m) \div 1000), ms |-> (dt.ms + m) % 1000]

\* the datetime as milliseconds after base_s seconds, for comparing spacings
MsSince(dt, base_s) == (dt.s - base_s) * 1000 + dt.ms

\* df['col0'].cumsum() at row i (1-based)
CumSum(col, i) == SeqSum(SubSeq(col, 1, i))

SeqMax(col) == CHOOSE m \in Range(col) : \A x \in Range(col) : x <= m

\* lines 34-40: the first non-zero value of the first column
NonZeroIndices(col) == { i \in 1..Len(col) : col[i] # 0 }

TimestampFormatLinspace(col) ==
    LET nz == NonZeroIndices(col)
        first == col[CHOOSE k \in nz : \A j \in nz : k <= j]
        last == col[CHOOSE k \in nz : \A j \in nz : j <= k]
    IN  [i \in 1..Len(col) |->
            IF Len(col) = 1 THEN ToDatetime(first)
            ELSE AddMs(ToDatetime(first),
                       ((last - first) * 1000 * (i - 1)) \div (Len(col) - 1))]

\* lines 42-63: every row from an anchor to the next one gets the anchor's
\* value plus 20 ms per row; rows before the first anchor keep NaT
TimestampFormat(col) ==
    [i \in 1..Len(col) |->
        LET before == { k \in NonZeroIndices(col) : k <= i }
        IN  IF before = {} THEN NaT
            ELSE LET start_idx == CHOOSE k \in before : \A j \in before : j <= k
                 IN  AddMs(ToDatetime(col[start_idx]), (i - start_idx) * 20)]

DeltaFormatLinspace(col, start) ==
    [i \in 1..Len(col) |->
        IF Len(col) = 1 THEN ToDatetime(start)
        ELSE AddMs(ToDatetime(start), (CumSum(col, Len(col)) * (i - 1)) \div (Len(col) - 1))]

\* lines 87-94: the first row is start_time, row i is the first row plus the
\* cumulative sum of the first column up to row i
DeltaFormat(col, start) ==
    [i \in 1..Len(col) |->
        IF i = 1 THEN ToDatetime(start)
        ELSE AddMs(ToDatetime(start), CumSum(col, i))]

\* pd.date_range(start, periods=n, freq='20ms')
DateRange20ms(start_dt, n) == [i \in 1..n |-> AddMs(start_dt, (i - 1) * 20)]

\* is_incrementing_sequence, lines 153-162, with tolerance 0.1:
\* |d - mean| < 0.1 * mean for more than 90% of the differences d
is_incrementing_sequence(arr) ==
    IF Len(arr) < 2 THEN TRUE
    ELSE LET diffs == NpDiff(arr)
             m == Len(diffs)
             total == SeqSum(diffs)
             close == { i \in 1..m : 10 * Abs(m * diffs[i] - total) < total }
         IN  10 * Cardinality(close) > 9 * m

\* lines 33-40: the column holds a zero and its first non-zero value is larger
\* than 1000000000
IsTimestampEncoding(col) ==
    /\ 0 \in Range(col)
    /\ NonZeroIndices(col) # {}
    /\ col[CHOOSE k \in NonZeroIndices(col) :
              \A j \in NonZeroIndices(col) : k <= j] > 1000000000

\* line 71
IsDeltaEncoding(col) == SeqMax(col) <= 10000

\* lines 103-132: the sidecar start_time and 20 ms per row, when the column
\* counts up evenly and the folder holds a start_time; no column is ever named
\* col1, so line 105 is False
IndexApplies(f) ==
    is_incrementing_sequence(f.col0) /\ f.folder_path /\ f.info_start # NoStart

IndexFallback(f) ==
    [format |-> "index",
     datetime |-> DateRange20ms(ToDatetime(f.info_start), Len(f.col0))]

MtimeFallbackRaises(f) == [format |-> "error", datetime |-> <<>>]

\* lines 134-148: the file's modification time minus the recording time
MtimeFallback(f) ==
    [format |-> "mtime",
     datetime |-> DateRange20ms(AddMs(ToDatetime(f.mtime), 0 - Len(f.col0) * 20),
                                Len(f.col0))]

read_ppg_file(f) ==
    IF ~f.readable \/ f.ncols < 5 \/ f.col0 = <<>>
    THEN \* lines 21, 27, 151: ValueError("Error reading file ...")
         [format |-> "error", datetime |-> <<>>]
    ELSE IF IsTimestampEncoding(f.col0)
    THEN [format |-> "timestamp", datetime |-> TimestampFormat(f.col0)]
    ELSE IF IsDeltaEncoding(f.col0)
    THEN IF f.info_start = NoStart
         THEN \* line 85
              [format |-> "error", datetime |-> <<>>]
         ELSE [format |-> "delta", datetime |-> DeltaFormat(f.col0, f.info_start)]
    ELSE IF IndexApplies(f)
    THEN IndexFallback(f)
    ELSE MtimeFallback(f)

SmallValues == {0, 500, 1000, 20000}
AnchorValues == {0, 1700000000, 1700000001}
StartTimes == {NoStart, 1700000000}

\* 11 rows whose first column sums to 10000: equal steps after a zero, equal
\* steps before a zero, and one step of 10000
ElevenRows == { [i \in 1..11 |-> IF i = 1 THEN 0 ELSE 1000],
                [i \in 1..11 |-> IF i = 11 THEN 0 ELSE 1000],
                [i \in 1..11 |-> IF i = 2 THEN 10000 ELSE 0] }

RDInit ==
    /\ rd_file \in [col0 : SeqsUpTo(SmallValues, MaxFileRows)
                             \cup SeqsUpTo(AnchorValues, MaxFileRows)
                             \cup ElevenRows,
                    ncols : {4, 5},
                    readable : BOOLEAN,
                    folder_path : BOOLEAN,
                    info_start : StartTimes,
                    mtime : {1700000100}]
    /\ rd_out = <<>>
    /\ rd_pc = "call"

\* one call of read_ppg_file
CallReadPPGFile ==
    /\ rd_pc = "call"
    /\ rd_out' = read_ppg_file(rd_file)
    /\ rd_pc' = "returned"
    /\ UNCHANGED <<rd_file, rd_others>>

RDNext == CallReadPPGFile

----------------------------------------------------------------------------
(* DirectoryProcessingWorker run on one participant folder, as BatchWorker   *)
(* uses it: directory_worker.py 50-258.  A session folder is described by    *)
(* what the worker finds in it: a numeric name, a ppg.csv, a file that       *)
(* read_ppg_file accepts, timestamps that give a sampling rate, and the      *)
(* beats the peak detector flags per channel.                                *)

\* the channel columns of a raw table (io_utils.py 25) that the model follows
Channels == <<"P0", "P1">>
ChannelSet == Range(Channels)

\* defaults of the workers' constructors
PPILowDefault == 667
PPIHighDefault == 2000
WindowDefault == 5

\* the constructor arguments of a worker, lines 27-48
DefaultConfig(calc_hrv) ==
    [channels |-> Channels, calculate_hrv |-> calc_hrv, window_size |-> WindowDefault,
     ppi_low_threshold |-> PPILowDefault, ppi_high_threshold |-> PPIHighDefault,
     use_time_range |-> FALSE, start_time |-> <<0, 0>>, end_time |-> <<4, 59>>]

\* pd.concat([a, b])
Concat(a, b) == [columns |-> a.columns \cup b.columns, rows |-> a.rows \o b.rows]

\* DataFrame.sort_values(by="Time") raises KeyError when there is no such column
SortRaises(df) == "Time" \notin df.columns

\* the sorted rows, where no two rows have the same Time
SortRows(rows) == CHOOSE srt \in SortValues(rows) : TRUE

\* lines 178-215 for one channel of one epoch: the beat table with PPI, cleaned
\* and tagged with the folder
DataSample(session, ch, low, high) ==
    LET cleaned == BandFilter(DropNa(Diff(SortRows(session.beats[ch]))), low, high)
    IN  [columns |-> {"Time", ch, "PPG_Peaks", "Quality", "PPI", "Folder"},
         rows |-> [i \in 1..Len(cleaned) |->
                     [label |-> cleaned[i].label, Time |-> cleaned[i].Time,
                      Quality |-> cleaned[i].Quality, PPI |-> cleaned[i].PPI,
                      Folder |-> session.name]]]

\* lines 116-128: the filter is on and the adjusted start is after the adjusted end
TimeRangeError(cfg) ==
    /\ cfg.use_time_range
    /\ StartAfterEnd(TimeOfDay(Strptime(cfg.start_time) + DeltaTime),
                     TimeOfDay(Strptime(cfg.end_time) + DeltaTime))

\* an unreadable raw file ends the whole run like a configuration error
EpochOutcomeAbortOnError(session, cfg) ==
    IF ~session.has_ppg THEN "no_ppg"
    ELSE IF ~session.read_ok \/ TimeRangeError(cfg) THEN "config_error"
    ELSE IF cfg.use_time_range /\ ~session.in_range THEN "empty_range"
    ELSE IF ~session.rate_ok THEN "no_rate"
    ELSE "processed"

\* lines 94-151: how far one epoch folder gets.  read_ppg_file always returns a
\* datetime column, so the index is a DatetimeIndex at line 111.
EpochOutcome(session, cfg) ==
    IF ~session.has_ppg THEN "no_ppg"                  \* lines 96-98
    ELSE IF ~session.read_ok THEN "read_error"         \* line 104 raises, lines 222-223
    ELSE IF TimeRangeError(cfg) THEN "config_error"    \* lines 126-128
    ELSE IF cfg.use_time_range /\ ~session.in_range
    THEN "empty_range"                                 \* lines 137-139
    ELSE IF ~session.rate_ok THEN "no_rate"            \* lines 145-147
    ELSE "processed"

\* the requested channels the table of the epoch does not hold, lines 155-157
MissingChannels(session, cfg) == Range(cfg.channels) \ DOMAIN session.beats

\* line 131, ppg.index = ppg.index + delta_time: with the filter on, the
\* timestamps of the table of the epoch, and so of every channel, move on
ShiftIndex(session, cfg) ==
    IF cfg.use_time_range
    THEN [session EXCEPT !.beats =
            [ch \in DOMAIN @ |->
                [i \in 1..Len(@[ch]) |-> [@[ch][i] EXCEPT !.Time = @ + DeltaTime]]]]
    ELSE session

RevertTimeNever(df, cfg) == df

\* lines 195-197, data_sample["Time"] - delta_time on the copy made for the
\* channel
RevertTime(df, cfg) ==
    IF cfg.use_time_range
    THEN [df EXCEPT !.rows = [i \in 1..Len(@) |-> [@[i] EXCEPT !.Time = @ - DeltaTime]]]
    ELSE df

\* lines 88-223 for one folder: the results after it and the status messages
ProcessFolder(res, session, cfg) ==
    LET outcome == EpochOutcome(session, cfg)
    IN  [outcome |-> outcome,
         results |->
            IF outcome # "processed" THEN res
            ELSE [ch \in DOMAIN res |->
                    IF ch \in MissingChannels(session, cfg) THEN res[ch]
                    ELSE LET merged == Concat(res[ch].ppi_data,
                                              RevertTime(
                                                  DataSample(ShiftIndex(session, cfg), ch,
                                                             cfg.ppi_low_threshold,
                                                             cfg.ppi_high_threshold),
                                                  cfg))
                         IN  [res[ch] EXCEPT !.ppi_data =
                                 [columns |-> merged.columns, rows |-> SortRows(merged.rows)]]],
         status |->
            IF outcome = "processed"
            THEN { <<"channel_not_found", ch, session.name>> : ch \in MissingChannels(session, cfg) }
            ELSE IF outcome = "config_error" THEN {}
            ELSE { <<outcome, session.name>> }]

\* the loop of lines 88-223 from some folder on; aborted is the return of line 128
RECURSIVE FolderLoop(_, _, _)
FolderLoop(res, folders, cfg) ==
    IF folders = <<>> THEN [aborted |-> FALSE, results |-> res]
    ELSE LET step == ProcessFolder(res, Head(folders), cfg)
         IN  IF step.outcome = "config_error" THEN [aborted |-> TRUE, results |-> res]
             ELSE FolderLoop(step.results, Tail(folders), cfg)

\* pd.DataFrame(hrv_results): no columns when the list is empty
HRVFrame(windows) ==
    IF windows = <<>> THEN EmptyFrame
    ELSE [columns |-> {"MeanNN", "SDNN", "RMSSD", "SDSD", "CVNN", "CVSD", "MedianNN",
                       "Num_Data_Points", "Mean_Quality", "Start_Time", "End_Time"},
          rows |-> windows]

\* f + g for rationals
FracAdd(f, g) ==
    IF IsNaN(f) \/ IsNaN(g) THEN NaNFrac
    ELSE Frac(f.num * g.den + g.num * f.den, f.den * g.den)

RECURSIVE FracSum(_)
FracSum(fs) == IF fs = <<>> THEN Frac(0, 1) ELSE FracAdd(Head(fs), FracSum(Tail(fs)))

KeepNa(vals) == vals

\* skipna=True, the default of DataFrame.mean
SkipNa(vals) == SelectSeq(vals, LAMBDA v : ~IsNaN(v))

\* the mean of one column
SeriesMean(vals) ==
    LET kept == SkipNa(vals)
    IN  IF kept = <<>> \/ \E i \in 1..Len(kept) : IsNaN(kept[i]) THEN NaNFrac
        ELSE FracDiv(FracSum(kept), Frac(Len(kept), 1))

\* the mean of a column of square roots, kept as the squares that enter it
SeriesMeanOfRoots(squares) ==
    LET kept == SkipNa(squares)
    IN  IF kept = <<>> \/ \E i \in 1..Len(kept) : IsNaN(kept[i]) THEN NaNFrac
        ELSE [mean_of_roots |-> kept]

\* the columns of strings a table of HRV windows can hold
StringColumns == {"Folder", "Participant"}

\* DataFrame.mean() raises TypeError on a column of strings where pandas no
\* longer drops such columns (numeric_only=False, pandas 2); older versions
\* leave the column out
MeanRaises(df, drops_nuisance) == ~drops_nuisance /\ df.columns \cap StringColumns # {}

NoOverall == [present |-> FALSE]

\* hrv_metrics.mean(), directory_worker.py 242 and batch_worker.py 128
FrameMean(df) ==
    LET col(name) == [i \in 1..Len(df.rows) |-> df.rows[i].metrics[name]]
    IN  [present |-> TRUE,
         MeanNN |-> SeriesMean(col("MeanNN")),
         SDNN |-> SeriesMeanOfRoots(col("SDNN_sq")),
         RMSSD |-> SeriesMeanOfRoots(col("RMSSD_sq")),
         SDSD |-> SeriesMeanOfRoots(col("SDSD_sq")),
         CVNN |-> SeriesMeanOfRoots(col("CVNN_sq")),
         CVSD |-> SeriesMeanOfRoots(col("CVSD_sq")),
         MedianNN |-> SeriesMean(col("MedianNN")),
         Num_Data_Points |->
            SeriesMean([i \in 1..Len(df.rows) |-> Frac(df.rows[i].metrics.Num_Data_Points, 1)]),
         Mean_Quality |-> SeriesMean(col("Mean_Quality"))]

\* lines 244-252: the windows get a Folder column
WithFolderColumn(df) ==
    IF df.rows = <<>> THEN df ELSE [df EXCEPT !.columns = @ \cup {"Folder"}]

\* the empty results of lines 79-84
InitialResults(cfg) ==
    [ch \in Range(cfg.channels) |->
        [ppi_data |-> EmptyFrame,
         hrv_metrics |-> IF cfg.calculate_hrv THEN EmptyFrame ELSE NoneFrame,
         overall_metrics |-> NoOverall]]

\* the rows of a table that carry the tag of one folder
RowsOfFolder(rows, name) == SelectSeq(rows, LAMBDA row : row.Folder = name)

\* the windower run on the records of each folder apart, the windows put
\* together in the order of the first records of the folders
RECURSIVE WindowsPerFolder(_, _)
WindowsPerFolder(rows, w) ==
    IF rows = <<>> THEN <<>>
    ELSE calculate_hrv_metrics(RowsOfFolder(rows, rows[1].Folder), w)
            \o WindowsPerFolder(SelectSeq(rows, LAMBDA row : row.Folder # rows[1].Folder), w)

CombinedHRVPerEpoch(res, cfg) ==
    [ch \in DOMAIN res |->
        IF cfg.calculate_hrv /\ ~IsEmpty(res[ch].ppi_data)
        THEN LET hrv == HRVFrame(WindowsPerFolder(res[ch].ppi_data.rows, cfg.window_size))
             IN  [ppi_data |-> res[ch].ppi_data,
                  hrv_metrics |-> WithFolderColumn(hrv),
                  overall_metrics |-> FrameMean(hrv)]
        ELSE res[ch]]

\* lines 229-256: the HRV windows of the combined PPI data of each channel
CombinedHRV(res, cfg) ==
    [ch \in DOMAIN res |->
        IF cfg.calculate_hrv /\ ~IsEmpty(res[ch].ppi_data)
        THEN LET hrv == HRVFrame(calculate_hrv_metrics(res[ch].ppi_data.rows, cfg.window_size))
             IN  [ppi_data |-> res[ch].ppi_data,
                  hrv_metrics |-> WithFolderColumn(hrv),
                  overall_metrics |-> FrameMean(hrv)]
        ELSE res[ch]]

\* a window whose Folder cell was not written
NoFolder == "nan"

\* line 248: abs(ppi_data["Time"] - start_time).idxmin(), the label of the
\* first record nearest to t
ClosestIdx(ppi_rows, t) ==
    LET dist(i) == Abs(ppi_rows[i].Time - t)
        first == CHOOSE i \in 1..Len(ppi_rows) :
                    /\ \A j \in 1..Len(ppi_rows) : dist(i) <= dist(j)
                    /\ \A j \in 1..(i - 1) : dist(j) > dist(i)
    IN  ppi_rows[first].label

\* line 249, ppi_data.at[closest_idx, "Folder"]: the Folder cells of the rows
\* with this label; the concatenation of line 218 keeps the labels of the
\* epochs, so there can be several
FolderAt(ppi_rows, label) ==
    LET hits == SelectSeq(ppi_rows, LAMBDA row : row.label = label)
    IN  [i \in 1..Len(hits) |-> hits[i].Folder]

\* lines 246-251 from window k on.  Where the label is that of one record
\* the window gets its folder.  Where it is the label of several records,
\* .at gives a Series and not a string, and writing it into the one cell
\* either raises, which ends the loop in the handler of lines 255-256, or
\* leaves the cell without a folder, as the installed pandas has it.
RECURSIVE BackfillFrom(_, _, _, _)
BackfillFrom(windows, k, ppi_rows, at_raises) ==
    IF k > Len(windows) THEN windows
    ELSE LET cells == FolderAt(ppi_rows, ClosestIdx(ppi_rows, windows[k].Start_Time))
         IN  IF Len(cells) = 1
             THEN BackfillFrom([windows EXCEPT ![k].Folder = cells[1]], k + 1,
                               ppi_rows, at_raises)
             ELSE IF at_raises THEN windows
             ELSE BackfillFrom(windows, k + 1, ppi_rows, at_raises)

\* lines 244-252 for every channel of the results
BackfillFolders(res, at_raises) ==
    [ch \in DOMAIN res |->
        IF IsNoneFrame(res[ch].hrv_metrics) \/ res[ch].hrv_metrics.rows = <<>>
        THEN res[ch]
        ELSE [res[ch] EXCEPT !.hrv_metrics.rows =
                BackfillFrom([i \in 1..Len(@) |-> @[i] @@ [Folder |-> NoFolder]], 1,
                             res[ch].ppi_data.rows, at_raises)]]

\* every folder, whatever its name
SubfoldersAnyName(sessions) == sessions

\* the folders with numeric names, line 70
Subfolders(sessions) == SelectSeq(sessions, LAMBDA f : f.numeric)

\* run and _process_directory, lines 50-258, as BatchWorker calls them;
\* is_none is the bare return of lines 74 and 128
process_directory(sessions, cfg) ==
    IF Subfolders(sessions) = <<>>
    THEN [is_none |-> TRUE, channels |-> <<>>]
    ELSE LET loop == FolderLoop(InitialResults(cfg), Subfolders(sessions), cfg)
         IN  IF loop.aborted THEN [is_none |-> TRUE, channels |-> <<>>]
             ELSE [is_none |-> FALSE, channels |-> CombinedHRV(loop.results, cfg)]

\* the Participant column, lines 196-204: only a non-empty table gets it
TagParticipant(df, id) ==
    IF IsEmpty(df) THEN df
    ELSE [columns |-> df.columns \cup {"Participant"},
          rows |-> [i \in 1..Len(df.rows) |-> df.rows[i] @@ [Participant |-> id]]]

\* BatchWorker._process_participant, lines 144-212
process_participant(p, cfg) ==
    IF p.sessions = <<>>
    THEN \* lines 150-152
         [is_none |-> TRUE, channels |-> <<>>]
    ELSE LET session_results == process_directory(p.sessions, cfg)
         IN  IF session_results.is_none THEN session_results
             ELSE IF \E ch \in Range(cfg.channels) :
                        IsNoneFrame(session_results.channels[ch].hrv_metrics)
             THEN \* line 202: None has no attribute "empty"; lines 210-212
                  [is_none |-> TRUE, channels |-> <<>>]
             ELSE [is_none |-> FALSE,
                   channels |->
                     [ch \in Range(cfg.channels) |->
                        [session_results.channels[ch] EXCEPT
                            !.ppi_data = TagParticipant(@, p.id),
                            !.hrv_metrics = TagParticipant(@, p.id)]]]

----------------------------------------------------------------------------
(* BatchWorker.run: batch_worker.py 60-142 *)

BeatsAt(ts) == [i \in 1..Len(ts) |-> [label |-> 10 * i, Time |-> ts[i], Quality |-> 1]]

GoodSession(name, base) ==
    [name |-> name, numeric |-> TRUE, has_ppg |-> TRUE, read_ok |-> TRUE, rate_ok |-> TRUE,
     in_range |-> TRUE,
     beats |-> [ch \in ChannelSet |->
                  IF ch = "P0" THEN BeatsAt(<<base, base + 800, base + 1600, base + 5000>>)
                  ELSE BeatsAt(<<base + 10, base + 900>>)]]

\* a session that ends before any beat is looked for
BadSession(name, numeric, has_ppg, read_ok, rate_ok) ==
    [name |-> name, numeric |-> numeric, has_ppg |-> has_ppg, read_ok |-> read_ok,
     rate_ok |-> rate_ok, in_range |-> TRUE, beats |-> [ch \in ChannelSet |-> <<>>]]

\* a session whose beats are all too close together for the PPI band
NoPPISession(name, base) ==
    [name |-> name, numeric |-> TRUE, has_ppg |-> TRUE, read_ok |-> TRUE, rate_ok |-> TRUE,
     in_range |-> TRUE,
     beats |-> [ch \in ChannelSet |-> BeatsAt(<<base, base + 100>>)]]

\* the peaks of a session at other sample positions
BeatsAtOdd(ts) == [i \in 1..Len(ts) |-> [BeatsAt(ts)[i] EXCEPT !.label = @ + 5]]

\* a session with three PPI records in the band on channel P0, its peaks at
\* sample positions no other session has
RichSession(name, base) ==
    [name |-> name, numeric |-> TRUE, has_ppg |-> TRUE, read_ok |-> TRUE, rate_ok |-> TRUE,
     in_range |-> TRUE,
     beats |-> [ch \in ChannelSet |->
                  IF ch = "P0" THEN BeatsAtOdd(<<base, base + 800, base + 1620, base + 2400>>)
                  ELSE BeatsAtOdd(<<base + 10, base + 900>>)]]

\* the participant folders a batch directory may hold
ParticipantCatalogue ==
    { [id |-> "Good1", sessions |-> <<GoodSession("1", 0), GoodSession("2", 100000)>>],
      [id |-> "Good2", sessions |-> <<RichSession("1", 1000000),
                                      BadSession("2", TRUE, FALSE, TRUE, TRUE)>>],
      [id |-> "NoSessions", sessions |-> <<>>],
      [id |-> "NoRaw", sessions |-> <<BadSession("1", TRUE, FALSE, TRUE, TRUE)>>],
      [id |-> "AllFail", sessions |-> <<BadSession("1", TRUE, TRUE, FALSE, TRUE),
                                        BadSession("2", TRUE, TRUE, TRUE, FALSE)>>],
      [id |-> "NamedEpochs",
       sessions |-> <<[GoodSession("Epoch1", 2000000) EXCEPT !.numeric = FALSE],
                      [GoodSession("Epoch2", 2100000) EXCEPT !.numeric = FALSE]>>],
      [id |-> "NoPPI", sessions |-> <<NoPPISession("1", 3000000)>>] }

NoResults == <<>>

\* the settings a batch is started with: the channels, the HRV switch, the
\* time range, and whether the installed pandas drops columns of strings from
\* DataFrame.mean()
BatchSetups ==
    { [channels |-> Channels, calc |-> TRUE, range |-> <<FALSE, <<0, 0>>, <<4, 59>>>>, drops |-> TRUE],
      [channels |-> Channels, calc |-> TRUE, range |-> <<FALSE, <<0, 0>>, <<4, 59>>>>, drops |-> FALSE],
      [channels |-> Channels, calc |-> FALSE, range |-> <<FALSE, <<0, 0>>, <<4, 59>>>>, drops |-> FALSE],
      [channels |-> <<"P0", "P3">>, calc |-> TRUE, range |-> <<FALSE, <<0, 0>>, <<4, 59>>>>, drops |-> FALSE],
      [channels |-> Channels, calc |-> TRUE, range |-> <<TRUE, <<22, 0>>, <<5, 0>>>>, drops |-> TRUE],
      [channels |-> Channels, calc |-> TRUE, range |-> <<TRUE, <<5, 0>>, <<22, 0>>>>, drops |-> FALSE] }

\* the arguments BatchWorker hands to its DirectoryProcessingWorker, lines 166-176
BatchConfig ==
    [DefaultConfig(calculate_hrv) EXCEPT !.channels = b_channels,
                                         !.use_time_range = b_time_range[1],
                                         !.start_time = b_time_range[2],
                                         !.end_time = b_time_range[3]]

BInit ==
    /\ participant_folders \in
          { ps \in SeqsUpTo(ParticipantCatalogue, MaxParticipants) :
              \A i, j \in 1..Len(ps) : i # j => ps[i] # ps[j] }
    /\ \E setup \in BatchSetups :
          /\ b_channels = setup.channels
          /\ calculate_hrv = setup.calc
          /\ b_time_range = setup.range
          /\ pandas_drops_nuisance = setup.drops
    /\ b_i = 0
    /\ results = NoResults
    /\ is_running = FALSE
    /\ should_stop = FALSE
    /\ b_progress = <<>>
    /\ error_emitted = 0
    /\ finished_emitted = 0
    /\ b_pc = "start"

b_config == <<participant_folders, calculate_hrv, b_channels, b_time_range,
              pandas_drops_nuisance>>

\* lines 60-81: no participant folder is an error; else the empty results
BatchStart ==
    /\ b_pc = "start"
    /\ is_running' = TRUE
    /\ should_stop' = FALSE
    /\ IF participant_folders = <<>>
       THEN /\ error_emitted' = error_emitted + 1
            /\ b_pc' = "returned"
            /\ UNCHANGED <<results, b_i>>
       ELSE /\ results' = InitialResults(BatchConfig)
            /\ b_i' = 1
            /\ b_pc' = "loop"
            /\ UNCHANGED error_emitted
    /\ UNCHANGED <<b_config, b_progress, finished_emitted, b_others>>

\* lines 105-107: the sort of the merged PPI tables raises for some channel
MergeRaises(merged) == \E ch \in DOMAIN merged : SortRaises(merged[ch])

\* int((i / n) * 100), lines 90 and 93
ProgressRemaining(i, n) == ((n - i) * 100) \div n

ProgressPct(i, n) == (i * 100) \div n

\* the head of one iteration of the loop over the participants, lines 84-94:
\* should_stop is read, the progress is emitted and the participant is begun
BeginParticipant ==
    /\ b_pc = "loop"
    /\ b_i <= Len(participant_folders)
    /\ ~should_stop
    /\ b_progress' = Append(b_progress, ProgressPct(b_i - 1, Len(participant_folders)))
    /\ b_pc' = "participant"
    /\ UNCHANGED <<b_config, b_i, results, is_running, should_stop, error_emitted,
                   finished_emitted, b_others>>

\* the body of the iteration, lines 96-113; an exception leaves the loop for
\* the handler of lines 140-142
ProcessParticipant ==
    /\ b_pc = "participant"
    /\ \E participant_results \in {process_participant(participant_folders[b_i], BatchConfig)} :
       \E merged \in { [ch \in DOMAIN results |->
                          IF participant_results.is_none THEN results[ch].ppi_data
                          ELSE Concat(results[ch].ppi_data,
                                      participant_results.channels[ch].ppi_data)] } :
           IF participant_results.is_none
           THEN /\ b_i' = b_i + 1
                /\ b_pc' = "loop"
                /\ UNCHANGED <<results, is_running, error_emitted>>
           ELSE IF MergeRaises(merged)
           THEN /\ is_running' = FALSE
                /\ error_emitted' = error_emitted + 1
                /\ b_pc' = "returned"
                /\ UNCHANGED <<results, b_i>>
           ELSE /\ results' =
                      [ch \in DOMAIN results |->
                          [results[ch] EXCEPT
                              !.ppi_data = [columns |-> merged[ch].columns,
                                            rows |-> SortRows(merged[ch].rows)],
                              !.hrv_metrics =
                                  IF calculate_hrv
                                  THEN Concat(@, participant_results.channels[ch].hrv_metrics)
                                  ELSE @]]
                /\ b_i' = b_i + 1
                /\ b_pc' = "loop"
                /\ UNCHANGED <<is_running, error_emitted>>
    /\ UNCHANGED <<b_config, should_stop, b_progress, finished_emitted, b_others>>

\* lines 116-135: the overall metrics of the combined windows of each channel
OverallMetrics(res, calc_hrv, drops_nuisance) ==
    [ch \in DOMAIN res |->
        IF /\ calc_hrv
           /\ ~IsEmpty(res[ch].ppi_data)
           /\ ~IsEmpty(res[ch].hrv_metrics)
           /\ ~MeanRaises(res[ch].hrv_metrics, drops_nuisance)
        THEN [res[ch] EXCEPT !.overall_metrics = FrameMean(res[ch].hrv_metrics)]
        ELSE res[ch]]

\* lines 85-87 and 115-138, the loop is over or left by the break: the overall
\* metrics are computed and the results are emitted
BatchFinish ==
    /\ b_pc = "loop"
    /\ b_i > Len(participant_folders) \/ should_stop
    /\ results' = OverallMetrics(results, calculate_hrv, pandas_drops_nuisance)
    /\ is_running' = FALSE
    /\ finished_emitted' = finished_emitted + 1
    /\ b_pc' = "returned"
    /\ UNCHANGED <<b_config, b_i, should_stop, b_progress, error_emitted, b_others>>

\* stop, lines 214-216, called from another thread once the worker has been
\* started: before run has executed its first statements or while it runs
BatchStop ==
    /\ b_pc \in {"start", "loop", "participant"}
    /\ ~should_stop
    /\ should_stop' = TRUE
    /\ UNCHANGED <<b_config, b_i, results, is_running, b_progress, error_emitted,
                   finished_emitted, b_pc, b_others>>

BNext == BatchStart \/ BeginParticipant \/ ProcessParticipant \/ BatchFinish \/ BatchStop

BIdle ==
    /\ participant_folders = <<>> /\ calculate_hrv = FALSE /\ b_i = 0
    /\ b_channels = <<>> /\ b_time_range = <<FALSE, <<0, 0>>, <<0, 0>>>>
    /\ pandas_drops_nuisance = FALSE
    /\ results = NoResults /\ is_running = FALSE /\ should_stop = FALSE
    /\ b_progress = <<>>
    /\ error_emitted = 0 /\ finished_emitted = 0 /\ b_pc = "idle"

----------------------------------------------------------------------------
(* DirectoryProcessingWorker run as a thread of its own: directory_worker.py *)
(* 50-262, one action per folder of the loop.                                *)

\* what the k-th folder of a directory can be
FolderKinds == {"good", "rich", "no_ppg", "unreadable", "no_rate", "out_of_range",
                "not_numeric"}

MakeFolder(kind, k) ==
    LET name == ToString(k)
        \* the second epoch begins 30 s after the first, the others far apart
        base == IF k = 2 THEN 130000 ELSE k * 100000
    IN  CASE kind = "good" -> GoodSession(name, base)
          [] kind = "rich" -> RichSession(name, base)
          [] kind = "no_ppg" -> BadSession(name, TRUE, FALSE, TRUE, TRUE)
          [] kind = "unreadable" -> BadSession(name, TRUE, TRUE, FALSE, TRUE)
          [] kind = "no_rate" -> BadSession(name, TRUE, TRUE, TRUE, FALSE)
          [] kind = "out_of_range" -> [GoodSession(name, base) EXCEPT !.in_range = FALSE]
          [] kind = "not_numeric" -> [GoodSession(name, base) EXCEPT !.numeric = FALSE]

\* the settings a directory run is started with
DirSetups ==
    { DefaultConfig(TRUE),
      DefaultConfig(FALSE),
      [DefaultConfig(TRUE) EXCEPT !.channels = <<"P0", "P3">>],
      [DefaultConfig(TRUE) EXCEPT !.use_time_range = TRUE,
                                  !.start_time = <<22, 0>>, !.end_time = <<5, 0>>],
      [DefaultConfig(TRUE) EXCEPT !.use_time_range = TRUE,
                                  !.start_time = <<5, 0>>, !.end_time = <<22, 0>>] }

DInit ==
    /\ d_cfg \in DirSetups
    /\ d_folders \in { [k \in 1..Len(kinds) |-> MakeFolder(kinds[k], k)] :
                         kinds \in SeqsUpTo(FolderKinds, MaxFolders) }
    /\ d_i = 0
    /\ d_results = NoResults
    /\ d_should_stop = FALSE
    /\ d_progress = <<>>
    /\ d_status = {}
    /\ d_error = 0
    /\ d_finished = 0
    /\ d_pc = "start"

\* lines 50-84: no numeric subfolder is an error and the end of the run
DirStart ==
    /\ d_pc = "start"
    /\ d_should_stop' = FALSE
    /\ IF Subfolders(d_folders) = <<>>
       THEN /\ d_error' = d_error + 1
            /\ d_pc' = "returned"
            /\ UNCHANGED <<d_results, d_i>>
       ELSE /\ d_results' = InitialResults(d_cfg)
            /\ d_i' = 1
            /\ d_pc' = "loop"
            /\ UNCHANGED d_error
    /\ UNCHANGED <<d_cfg, d_folders, d_progress, d_status, d_finished, d_others>>

\* the head of one iteration of the loop over the folders, lines 88-91: the
\* progress is emitted and the folder is begun; should_stop is not read
BeginFolder ==
    /\ d_pc = "loop"
    /\ d_i <= Len(Subfolders(d_folders))
    /\ d_progress' = Append(d_progress, ProgressPct(d_i - 1, Len(Subfolders(d_folders))))
    /\ d_pc' = "folder"
    /\ UNCHANGED <<d_cfg, d_folders, d_i, d_results, d_should_stop, d_status, d_error,
                   d_finished, d_others>>

\* the body of the iteration, lines 93-223
DirFolder ==
    /\ d_pc = "folder"
    /\ \E step \in {ProcessFolder(d_results, Subfolders(d_folders)[d_i], d_cfg)} :
          IF step.outcome = "config_error"
          THEN \* lines 126-128, then line 56: nothing is emitted for None
               /\ d_error' = d_error + 1
               /\ d_results' = NoResults
               /\ d_pc' = "returned"
               /\ UNCHANGED <<d_i, d_status>>
          ELSE /\ d_results' = step.results
               /\ d_status' = d_status \cup step.status
               /\ d_i' = d_i + 1
               /\ d_pc' = "loop"
               /\ UNCHANGED d_error
    /\ UNCHANGED <<d_cfg, d_folders, d_should_stop, d_progress, d_finished, d_others>>

\* lines 225-258 and 56-57: progress 100, the HRV windows and the overall
\* metrics of the combined data, and the results are emitted
DirFinish ==
    /\ d_pc = "loop"
    /\ d_i > Len(Subfolders(d_folders))
    /\ d_progress' = Append(d_progress, 100)
    /\ \E at_raises \in BOOLEAN :
          d_results' = BackfillFolders(CombinedHRV(d_results, d_cfg), at_raises)
    /\ d_finished' = d_finished + 1
    /\ d_pc' = "returned"
    /\ UNCHANGED <<d_cfg, d_folders, d_i, d_should_stop, d_status, d_error, d_others>>

\* stop, lines 260-262, called from another thread while the worker runs
DirStop ==
    /\ d_pc \in {"start", "loop", "folder"}
    /\ ~d_should_stop
    /\ d_should_stop' = TRUE
    /\ UNCHANGED <<d_cfg, d_folders, d_i, d_results, d_progress, d_status, d_error,
                   d_finished, d_pc, d_others>>

DNext == DirStart \/ BeginFolder \/ DirFolder \/ DirFinish \/ DirStop

DIdle ==
    /\ d_cfg = <<>> /\ d_folders = <<>> /\ d_i = 0 /\ d_results = NoResults
    /\ d_should_stop = FALSE /\ d_progress = <<>> /\ d_status = {}
    /\ d_error = 0 /\ d_finished = 0 /\ d_pc = "idle"

----------------------------------------------------------------------------
(* PPGProcessingWorker, the single-file worker: file_worker.py 32-189, one  *)
(* action per window group of a channel and one per channel.                *)

\* the channels a file worker can be asked for; P3 is no column of the table
FileChannelLists == {<<"P0">>, <<"P0", "P1">>, <<"P0", "P3">>, <<"P3", "P0">>, <<"P3">>}

\* the window groups of ppg.groupby(pd.Grouper(freq=...)), TRUE where the
\* group holds samples: the first and the last group always do
WindowGroups ==
    { g \in SeqsUpTo(BOOLEAN, MaxWindows) : Len(g) >= 1 /\ g[1] /\ g[Len(g)] }

FInit ==
    /\ f_channels \in FileChannelLists
    /\ f_file \in [read_ok : BOOLEAN, rate_ok : BOOLEAN, windows : WindowGroups]
    /\ f_i = 0
    /\ f_j = 0
    /\ f_results = {}
    /\ f_progress = <<>>
    /\ f_status = {}
    /\ f_error = {}
    /\ f_finished = 0
    /\ f_pc = "start"

\* lines 33-94: the file is read, the sampling rate is computed and every
\* requested channel is filtered; an absent channel goes to the error signal
FileStart ==
    /\ f_pc = "start"
    /\ IF ~f_file.read_ok
       THEN \* lines 37-39
            /\ f_error' = f_error \cup {<<"read_error">>}
            /\ f_pc' = "returned"
            /\ UNCHANGED <<f_i, f_j>>
       ELSE IF ~f_file.rate_ok
       THEN \* lines 58-60
            /\ f_error' = f_error \cup {<<"no_rate">>}
            /\ f_pc' = "returned"
            /\ UNCHANGED <<f_i, f_j>>
       ELSE \* lines 72-75
            /\ f_error' = f_error \cup { <<"channel_not_found", ch>> :
                                           ch \in Range(f_channels) \ ChannelSet }
            /\ f_i' = 0
            /\ f_j' = 0
            /\ f_pc' = "channels"
    /\ UNCHANGED <<f_channels, f_file, f_results, f_progress, f_status, f_finished, f_others>>

\* line 112: int((j / total_windows) * 100 / len(channels) + (i * 100 / len(channels)))
FileProgressPct(i, j, total_windows, n_channels) ==
    (100 * (j + i * total_windows)) \div (total_windows * n_channels)

\* lines 103-132: one window group of the channel at index f_i
FileWindow ==
    /\ f_pc = "channels"
    /\ f_i < Len(f_channels)
    /\ f_channels[f_i + 1] \in ChannelSet
    /\ f_j < Len(f_file.windows)
    /\ f_progress' = IF f_file.windows[f_j + 1]
                     THEN Append(f_progress,
                                 FileProgressPct(f_i, f_j, Len(f_file.windows), Len(f_channels)))
                     ELSE f_progress
    /\ f_j' = f_j + 1
    /\ UNCHANGED <<f_channels, f_file, f_i, f_results, f_status, f_error, f_finished,
                   f_pc, f_others>>

\* lines 96-98 and 134-184: an absent channel is passed over, the results of
\* a channel whose windows are done are stored
FileChannel ==
    /\ f_pc = "channels"
    /\ f_i < Len(f_channels)
    /\ IF f_channels[f_i + 1] \notin ChannelSet
       THEN UNCHANGED <<f_results, f_status>>
       ELSE /\ f_j = Len(f_file.windows)
            /\ f_results' = f_results \cup {f_channels[f_i + 1]}
            /\ f_status' = f_status \cup {<<"cleaning", f_channels[f_i + 1]>>}
    /\ f_i' = f_i + 1
    /\ f_j' = 0
    /\ UNCHANGED <<f_channels, f_file, f_progress, f_error, f_finished, f_pc, f_others>>

\* line 186
FileFinish ==
    /\ f_pc = "channels"
    /\ f_i = Len(f_channels)
    /\ f_finished' = f_finished + 1
    /\ f_pc' = "returned"
    /\ UNCHANGED <<f_channels, f_file, f_i, f_j, f_results, f_progress, f_status,
                   f_error, f_others>>

FNext == FileStart \/ FileWindow \/ FileChannel \/ FileFinish

FIdle ==
    /\ f_channels = <<>> /\ f_file = <<>> /\ f_i = 0 /\ f_j = 0 /\ f_results = {}
    /\ f_progress = <<>> /\ f_status = {} /\ f_error = {} /\ f_finished = 0
    /\ f_pc = "idle"

PPIIdle ==
    /\ beats = <<>> /\ ppi_low = 0 /\ ppi_high = 0
    /\ ppi_sorted = <<>> /\ ppi_data = EmptyFrame /\ ppi_pc = "idle"

HRVIdle ==
    /\ data = <<>> /\ window = 0 /\ row_i = 0 /\ current_bin = <<>>
    /\ current_start_time = None /\ hrv_results = <<>> /\ hrv_pc = "idle"

MetIdle ==
    /\ m_ppi = <<>> /\ m_quality = <<>> /\ m_out = <<>> /\ m_pc = "idle"

RDIdle == rd_file = <<>> /\ rd_out = <<>> /\ rd_pc = "idle"

InitMetrics == MetInit /\ PPIIdle /\ HRVIdle /\ TRIdle /\ RDIdle /\ BIdle /\ DIdle /\ FIdle
SpecMetrics == InitMetrics /\ [][MetNext]_vars

InitHRV == HRVInit /\ PPIIdle /\ MetIdle /\ TRIdle /\ RDIdle /\ BIdle /\ DIdle /\ FIdle
SpecHRV == InitHRV /\ [][HRVNext]_vars

InitPPI == PPIInit /\ HRVIdle /\ MetIdle /\ TRIdle /\ RDIdle /\ BIdle /\ DIdle /\ FIdle
SpecPPI == InitPPI /\ [][PPINext]_vars

InitTimeRange == TRInit /\ PPIIdle /\ HRVIdle /\ MetIdle /\ RDIdle /\ BIdle /\ DIdle /\ FIdle
SpecTimeRange == InitTimeRange /\ [][TRNext]_vars

InitRead == RDInit /\ PPIIdle /\ HRVIdle /\ MetIdle /\ TRIdle /\ BIdle /\ DIdle /\ FIdle
SpecRead == InitRead /\ [][RDNext]_vars

InitBatch == BInit /\ PPIIdle /\ HRVIdle /\ MetIdle /\ TRIdle /\ RDIdle /\ DIdle /\ FIdle
SpecBatch == InitBatch /\ [][BNext]_vars

InitDirectory == DInit /\ PPIIdle /\ HRVIdle /\ MetIdle /\ TRIdle /\ RDIdle /\ BIdle /\ FIdle
SpecDirectory == InitDirectory /\ [][DNext]_vars

\* one worker of any of the three modes
InitWorkers ==
    /\ PPIIdle /\ HRVIdle /\ MetIdle /\ TRIdle /\ RDIdle
    /\ \/ FInit /\ DIdle /\ BIdle
       \/ DInit /\ FIdle /\ BIdle
       \/ BInit /\ FIdle /\ DIdle
SpecWorkers ==
    InitWorkers /\ [][FileStart \/ FileWindow \/ FileChannel \/ FileFinish
                      \/ DirStart \/ BeginFolder \/ DirFolder \/ DirFinish \/ DirStop
                      \/ BatchStart \/ BeginParticipant \/ ProcessParticipant
                      \/ BatchFinish \/ BatchStop]_vars

----------------------------------------------------------------------------
(* Claims *)

\* C1: every record of a worker's ppi_data has a defined PPI inside the
\* inclusive band [low, high], and the earliest beat of the unit, whose PPI
\* is undefined, is not among the records.
C1_PPIInBand ==
    ppi_pc \in {"dir_done", "file_done", "clean_done"} =>
        \A i \in 1..Len(ppi_data.rows) :
            /\ ppi_data.rows[i].PPI # NaN
            /\ ppi_low <= ppi_data.rows[i].PPI
            /\ ppi_data.rows[i].PPI <= ppi_high
            /\ ppi_data.rows[i].label # ppi_sorted[1].label

\* a unit with an in-band beat, an out-of-band beat and the first beat
C1_Witness ==
    /\ ppi_pc = "dir_done"
    /\ Len(beats) >= 3
    /\ Len(ppi_data.rows) >= 1
    /\ Len(ppi_data.rows) < Len(beats) - 1

\* C2: every window emitted by calculate_hrv_metrics has Num_Data_Points > 1;
\* a bin of a single record is discarded wherever the bin is closed.
C2_WindowsHaveTwoPoints ==
    \A k \in 1..Len(hrv_results) : hrv_results[k].metrics.Num_Data_Points > 1

PointsInWindows == SeqSum([k \in 1..Len(hrv_results) |-> hrv_results[k].metrics.Num_Data_Points])

\* the scan is over, a window was emitted and a single-record bin was dropped
C2_Witness ==
    /\ hrv_pc = "done"
    /\ Len(hrv_results) >= 1
    /\ PointsInWindows < Len(data)

SpanOfWindows == SeqSum([k \in 1..Len(hrv_results) |-> hrv_results[k].End_Time - hrv_results[k].Start_Time])

\* C3: for a time-sorted input, the spans End_Time - Start_Time of the emitted
\* windows add up to at most the time from the first to the last input record.
C3_SpansWithinInput ==
    (hrv_pc = "done" /\ data # <<>> /\ IsTimeSorted(data)) =>
        SpanOfWindows <= Last(data).Time - data[1].Time

\* two windows of positive span came out of one scan
C3_Witness ==
    /\ hrv_pc = "done"
    /\ Len(hrv_results) >= 2
    /\ \A k \in 1..Len(hrv_results) : hrv_results[k].End_Time > hrv_results[k].Start_Time

TimesOf(rows) == [i \in 1..Len(rows) |-> rows[i].Time]

\* C4: two consecutive records of a time-sorted input that are more than 60
\* seconds apart never lie in the same emitted window; records at 0 s, 30 s,
\* 200 s, 230 s with W = 5 give exactly the windows [0 s, 30 s] and [200 s, 230 s].
C4_GapSplitsWindow ==
    /\ \A k \in 1..Len(hrv_results) : \A i \in 1..(Len(data) - 1) :
          (IsTimeSorted(data) /\ data[i + 1].Time - data[i].Time > 60 * 1000) =>
              ~(/\ hrv_results[k].Start_Time <= data[i].Time
                /\ data[i + 1].Time <= hrv_results[k].End_Time)
    /\ (hrv_pc = "done" /\ window = 5 /\ TimesOf(data) = <<0, 30000, 200000, 230000>>) =>
          /\ Len(hrv_results) = 2
          /\ hrv_results[1].Start_Time = 0 /\ hrv_results[1].End_Time = 30000
          /\ hrv_results[2].Start_Time = 200000 /\ hrv_results[2].End_Time = 230000

\* the literal input of the claim, scanned to the end
C4_Witness ==
    /\ hrv_pc = "done"
    /\ window = 5
    /\ TimesOf(data) = <<0, 30000, 200000, 230000>>
    /\ Len(hrv_results) = 2

\* C5: every record of the bin under construction lies at most W minutes
\* after the bin's start, the bin starts at its first record, the row just
\* scanned is the bin's last record (a row beyond the budget opens a new
\* bin), and every emitted window has End_Time - Start_Time <= W minutes.
C5_BudgetBoundsWindow ==
    hrv_pc \in {"scan", "done"} =>
        /\ \A k \in 1..Len(hrv_results) :
              hrv_results[k].End_Time - hrv_results[k].Start_Time <= window * 60 * 1000
        /\ current_bin # <<>> => current_bin[1].Time = current_start_time
        /\ \A j \in 1..Len(current_bin) :
              current_bin[j].Time - current_start_time <= window * 60 * 1000
        /\ row_i > 1 => Last(current_bin) = data[row_i - 1]

\* a bin filled up to exactly W minutes, then a row beyond the budget opened
\* the next bin
C5_Witness ==
    /\ hrv_pc = "done"
    /\ Len(hrv_results) >= 2
    /\ hrv_results[1].End_Time - hrv_results[1].Start_Time = window * 60 * 1000
    /\ hrv_results[2].Start_Time - hrv_results[1].End_Time <= 60 * 1000

\* C9: for n >= 2 PPI values calculate_metrics returns MeanNN = sum/n,
\* SDNN^2 = sum((x-mean)^2)/(n-1), RMSSD^2 = the mean of the squared successive
\* differences, CVNN = SDNN/MeanNN and CVSD = RMSSD/MeanNN (NaN when MeanNN is 0)
\* and Num_Data_Points = n; for [800,820,780] that is MeanNN 800, SDNN 20,
\* RMSSD^2 1000 (RMSSD 31.62 to two decimals), CVNN 0.025, Num_Data_Points 3.
C9_MetricFormulas ==
    (m_pc = "returned" /\ Len(m_ppi) >= 2) =>
        LET n == Len(m_ppi)
            s == SeqSum(m_ppi)
            q == SumSq(m_ppi)
            d == SeqSum([i \in 1..(n - 1) |-> (m_ppi[i + 1] - m_ppi[i]) * (m_ppi[i + 1] - m_ppi[i])])
        IN  /\ m_out.MeanNN = Frac(s, n)
            /\ m_out.SDNN_sq = Frac(n * q - s * s, n * (n - 1))
            /\ m_out.RMSSD_sq = Frac(d, n - 1)
            /\ s # 0 => m_out.CVNN_sq = Frac(n * (n * q - s * s), (n - 1) * s * s)
            /\ s # 0 => m_out.CVSD_sq = Frac(n * n * d, (n - 1) * s * s)
            /\ s = 0 => IsNaN(m_out.CVNN_sq) /\ IsNaN(m_out.CVSD_sq)
            /\ m_out.Num_Data_Points = n
            /\ m_ppi = <<800, 820, 780>> =>
                  /\ m_out.MeanNN = [num |-> 800, den |-> 1]
                  /\ m_out.SDNN_sq = [num |-> 20 * 20, den |-> 1]
                  /\ m_out.RMSSD_sq = [num |-> 1000, den |-> 1]
                  /\ 3162 * 3162 <= 1000 * 100 * 100 /\ 1000 * 100 * 100 < 3163 * 3163
                  /\ m_out.CVNN_sq = Frac(25 * 25, 1000 * 1000)
                  /\ m_out.Num_Data_Points = 3

\* the literal bin of the claim went through calculate_metrics
C9_Witness ==
    /\ m_pc = "returned"
    /\ m_ppi = <<800, 820, 780>>
    /\ m_quality = <<1, 1, 1>>
    /\ ~IsNaN(m_out.SDNN_sq)

\* the samples of the table whose clock time is hh:mm
SamplesAt(hh, mm) == { t \in Range(ppg_index) : TimeOfDay(t) = Strptime(<<hh, mm>>) }

\* C6: with the filter enabled, start "22:00" and end "05:00", a sample at
\* 23:30 is kept, a sample at 02:00 is kept and a sample at 12:00 is rejected
\* (and the configuration is accepted).
C6_NightWindow ==
    (use_time_range /\ start_time = <<22, 0>> /\ end_time = <<5, 0>> /\ tr_pc # "read") =>
        /\ tr_pc # "config_error"
        /\ tr_pc = "empty_skipped" => SamplesAt(23, 30) \cup SamplesAt(2, 0) = {}
        /\ tr_pc = "done" =>
              /\ SamplesAt(23, 30) \cup SamplesAt(2, 0) \subseteq Range(tr_time)
              /\ SamplesAt(12, 0) \cap Range(tr_time) = {}

\* a table with samples at 12:00, 23:30 and 02:00 went through the filter
C6_Witness ==
    /\ use_time_range /\ start_time = <<22, 0>> /\ end_time = <<5, 0>>
    /\ tr_pc = "done"
    /\ SamplesAt(12, 0) # {} /\ SamplesAt(23, 30) # {} /\ SamplesAt(2, 0) # {}
    /\ Len(tr_time) = 2

\* the samples whose clock time lies in the same-day window from start to end
SameDayWindow == SelectSeq(ppg_index,
                           LAMBDA t : /\ Strptime(start_time) <= TimeOfDay(t)
                                      /\ TimeOfDay(t) <= Strptime(end_time))

\* C7 as stated: with start earlier than end the filter raises no
\* configuration error and keeps exactly the samples of the same-day window.
C7_AsStated ==
    (use_time_range /\ Strptime(start_time) < Strptime(end_time)) =>
        /\ tr_pc # "config_error"
        /\ tr_pc = "empty_skipped" => SameDayWindow = <<>>
        /\ tr_pc = "done" => tr_time = SameDayWindow

\* C7 (amended): the 12-hour shift is applied whenever the filter is enabled.
\* With start earlier than end, the run fails with the configuration error
\* when start is before 12:00 and end is at or after 12:00 (e.g. 05:00-22:00);
\* otherwise there is no configuration error and exactly the samples of the
\* same-day window from start to end are kept.
C7_ShiftAlways ==
    (use_time_range /\ Strptime(start_time) < Strptime(end_time) /\ tr_pc # "read") =>
        IF Strptime(start_time) < 12 * HourMs /\ Strptime(end_time) >= 12 * HourMs
        THEN tr_pc = "config_error"
        ELSE /\ tr_pc # "config_error"
             /\ tr_pc = "empty_skipped" => SameDayWindow = <<>>
             /\ tr_pc = "filtered" =>
                   tr_kept = [i \in 1..Len(SameDayWindow) |-> SameDayWindow[i] + 12 * HourMs]
             /\ tr_pc = "done" => tr_time = SameDayWindow

\* a window with start before end on one side of noon kept one sample and
\* rejected another
C7_Witness ==
    /\ use_time_range /\ start_time = <<13, 0>> /\ end_time = <<22, 0>>
    /\ tr_pc = "done"
    /\ tr_time # <<>>
    /\ Len(tr_time) < Len(ppg_index)

\* equal spacing from the first row to the last: row i lies at
\* (i - 1) / (n - 1) of the way
EquallySpaced(dts, base_s) ==
    \A i \in 1..Len(dts) :
        (Len(dts) - 1) * MsSince(dts[i], base_s)
            = (i - 1) * MsSince(dts[Len(dts)], base_s)

\* C8 as stated: the timestamps of a delta-encoded file are equally spaced
\* from S (first row) to S + sum(deltas) (last row).
C8_AsStated ==
    (rd_pc = "returned" /\ rd_out.format = "delta") =>
        /\ rd_out.datetime[1] = ToDatetime(rd_file.info_start)
        /\ Len(rd_file.col0) >= 2 =>
              Last(rd_out.datetime)
                  = AddMs(ToDatetime(rd_file.info_start), SeqSum(rd_file.col0))
        /\ EquallySpaced(rd_out.datetime, rd_file.info_start)

\* C8 (amended): the first row of a delta-encoded file gets S and every later
\* row i gets S plus the sum of the deltas of rows 1..i, so that the last of
\* n >= 2 rows gets S + sum(deltas); the timestamps are equally spaced exactly
\* when delta_1 + delta_2 = delta_3 = ... = delta_n.  11 rows with the deltas
\* 0, 1000, ..., 1000 and S = 1700000000 give 1700000000.000, 1700000001.000,
\* ..., 1700000010.000.
C8_CumulativeDeltas ==
    (rd_pc = "returned" /\ rd_out.format = "delta") =>
        LET col == rd_file.col0
            n == Len(col)
            S == rd_file.info_start
        IN  /\ Len(rd_out.datetime) = n
            /\ rd_out.datetime[1] = ToDatetime(S)
            /\ \A i \in 2..n :
                  MsSince(rd_out.datetime[i], S) = SeqSum(SubSeq(col, 1, i))
            /\ n >= 2 => MsSince(rd_out.datetime[n], S) = SeqSum(col)
            /\ n >= 2 => (EquallySpaced(rd_out.datetime, S)
                            <=> \A i \in 3..n : col[i] = col[1] + col[2])
            /\ (col = [i \in 1..11 |-> IF i = 1 THEN 0 ELSE 1000] /\ S = 1700000000) =>
                  rd_out.datetime = [i \in 1..11 |-> [s |-> 1700000000 + (i - 1), ms |-> 0]]

\* the 11-row file of the claim was read
C8_Witness ==
    /\ rd_pc = "returned"
    /\ rd_out.format = "delta"
    /\ rd_file.col0 = [i \in 1..11 |-> IF i = 1 THEN 0 ELSE 1000]
    /\ rd_file.info_start = 1700000000
    /\ rd_out.datetime[11] = [s |-> 1700000010, ms |-> 0]

\* the participant has session folders but none of them yields a PPI record
ZeroValidEpochs(p) ==
    LET r == process_directory(p.sessions, [BatchConfig EXCEPT !.calculate_hrv = TRUE])
    IN  r.is_none \/ \A ch \in Range(b_channels) : IsEmpty(r.channels[ch].ppi_data)

\* the PPI records (Time, PPI) and the HRV windows that participant p has for
\* channel ch when its folder is processed on its own in directory mode
OwnRecords(p, ch) ==
    LET r == process_directory(p.sessions, [BatchConfig EXCEPT !.calculate_hrv = TRUE])
    IN  IF r.is_none THEN {}
        ELSE { <<row.Time, row.PPI>> : row \in Range(r.channels[ch].ppi_data.rows) }

OwnWindows(p, ch) ==
    LET r == process_directory(p.sessions, BatchConfig)
    IN  IF r.is_none \/ ~calculate_hrv THEN {}
        ELSE { <<w.Start_Time, w.End_Time>> : w \in Range(r.channels[ch].hrv_metrics.rows) }

\* C10: a batch with a participant of zero valid epochs still ends with
\* finished_with_result and no error, and the result holds the PPI records
\* and the HRV windows of every other participant.
C10_AsStated ==
    (/\ b_pc = "returned"
     /\ \E i \in 1..Len(participant_folders) : ZeroValidEpochs(participant_folders[i])) =>
        /\ finished_emitted = 1
        /\ error_emitted = 0
        /\ \A i \in 1..Len(participant_folders) : \A ch \in Range(b_channels) :
              /\ OwnRecords(participant_folders[i], ch)
                    \subseteq { <<row.Time, row.PPI>> : row \in Range(results[ch].ppi_data.rows) }
              /\ OwnWindows(participant_folders[i], ch)
                    \subseteq { <<w.Start_Time, w.End_Time>> :
                                  w \in Range(results[ch].hrv_metrics.rows) }

----------------------------------------------------------------------------
(* read_ppg_file: rejection, anchors, defined and ordered timestamps *)

\* the file can be read, has its five columns and at least one row, and its
\* first column is in neither of the two encodings
NeitherEncoding(f) ==
    /\ f.readable /\ f.ncols >= 5 /\ f.col0 # <<>>
    /\ ~IsTimestampEncoding(f.col0)
    /\ ~IsDeltaEncoding(f.col0)

\* C11 as stated: a raw file whose first column matches neither encoding is
\* rejected and no timestamped table is returned for it.
C11_AsStated ==
    (rd_pc = "returned" /\ NeitherEncoding(rd_file)) =>
        (rd_out.format = "error" /\ rd_out.datetime = <<>>)

\* C11 (amended): a readable file of five columns or more whose first column
\* matches neither encoding is not rejected: a table with one timestamp per
\* row, 20 ms apart, is returned; it starts at the sidecar start_time when the
\* first column counts up evenly and the folder holds a start_time, and else
\* at the file's modification time minus 20 ms per row.
C11_FallbackTable ==
    (rd_pc = "returned" /\ NeitherEncoding(rd_file)) =>
        LET n == Len(rd_file.col0)
            first == IF IndexApplies(rd_file) THEN ToDatetime(rd_file.info_start)
                     ELSE AddMs(ToDatetime(rd_file.mtime), 0 - 20 * n)
        IN  /\ rd_out.format # "error"
            /\ Len(rd_out.datetime) = n
            /\ \A i \in 1..n : rd_out.datetime[i] = AddMs(first, 20 * (i - 1))

\* a file in neither encoding was stamped from its modification time
C11_Witness ==
    /\ rd_pc = "returned"
    /\ NeitherEncoding(rd_file)
    /\ ~IndexApplies(rd_file)
    /\ Len(rd_out.datetime) >= 2

\* the anchors of the first column, in row order
FirstAnchor(col) == col[CHOOSE k \in NonZeroIndices(col) : \A j \in NonZeroIndices(col) : k <= j]
LastAnchor(col) == col[CHOOSE k \in NonZeroIndices(col) : \A j \in NonZeroIndices(col) : j <= k]

\* C12 as stated: in the absolute-timestamp encoding the first row gets the
\* first anchor, the last row the last anchor, and the rows between are
\* equally spaced over the row index (here for files that start and end with
\* an anchor).
C12_AsStated ==
    (/\ rd_pc = "returned" /\ rd_out.format = "timestamp"
     /\ rd_file.col0[1] # 0 /\ rd_file.col0[Len(rd_file.col0)] # 0) =>
        LET dts == rd_out.datetime
            n == Len(dts)
            base == FirstAnchor(rd_file.col0)
        IN  /\ dts[1] = ToDatetime(base)
            /\ dts[n] = ToDatetime(LastAnchor(rd_file.col0))
            /\ \A i \in 1..n :
                  (n - 1) * MsSince(dts[i], base) = (i - 1) * MsSince(dts[n], base)

\* C12 (amended): in the absolute-timestamp encoding every row that holds an
\* anchor gets that anchor as its timestamp and every zero row after it gets
\* the timestamp of the row before plus 20 ms, so the spacing restarts at each
\* batch boundary; the rows before the first anchor get no timestamp.
C12_PerBatchAnchors ==
    (rd_pc = "returned" /\ rd_out.format = "timestamp") =>
        LET col == rd_file.col0
            dts == rd_out.datetime
        IN  /\ Len(dts) = Len(col)
            /\ \A i \in 1..Len(col) :
                  IF col[i] # 0 THEN dts[i] = ToDatetime(col[i])
                  ELSE IF i > 1 /\ dts[i - 1] # NaT THEN dts[i] = AddMs(dts[i - 1], 20)
                  ELSE dts[i] = NaT

\* a file of two batches, the first of them two rows long, was read
C12_Witness ==
    /\ rd_pc = "returned"
    /\ rd_out.format = "timestamp"
    /\ Len(rd_file.col0) >= 3
    /\ rd_file.col0[1] # 0 /\ rd_file.col0[2] = 0 /\ rd_file.col0[3] # 0

\* C13 as stated: every row of a returned table has a defined timestamp.
C13_AsStated ==
    (rd_pc = "returned" /\ rd_out.format # "error") =>
        \A i \in 1..Len(rd_out.datetime) : rd_out.datetime[i] # NaT

\* the non-zero values of the first column never decrease from row to row
AnchorsAscend(col) ==
    \A i, j \in NonZeroIndices(col) : i <= j => col[i] <= col[j]

\* C14 as stated: the timestamps of a returned table are non-decreasing in
\* row order (compared where both rows have one, for a first column whose
\* anchors or deltas never decrease or go below zero).
C14_AsStated ==
    (rd_pc = "returned" /\ rd_out.format # "error" /\ AnchorsAscend(rd_file.col0)) =>
        \A i \in 2..Len(rd_out.datetime) :
            (rd_out.datetime[i - 1] # NaT /\ rd_out.datetime[i] # NaT) =>
                MsSince(rd_out.datetime[i - 1], 1700000000)
                    <= MsSince(rd_out.datetime[i], 1700000000)

----------------------------------------------------------------------------
(* The workers: cancellation, progress, absent channels, failing epochs,    *)
(* the time range configuration and the overall metrics                     *)

\* C15 as stated: once stop() has been called on a running worker, the unit
\* in flight runs to completion and no further unit is started: no further
\* epoch folder in directory mode, no further participant in
\* participant-batch mode.
C15_AsStated ==
    [][/\ (d_pc = "loop" /\ d_should_stop) => d_pc' # "folder"
       /\ (b_pc = "loop" /\ should_stop) => b_pc' # "participant"]_vars

NonDecreasing(log) == \A i \in 1..(Len(log) - 1) : log[i] <= log[i + 1]

\* C16: within one run of a worker of any mode the values emitted on the
\* progress signal are non-decreasing and lie in 0..100.
C16_ProgressMonotone ==
    \A log \in {f_progress, d_progress, b_progress} :
        /\ NonDecreasing(log)
        /\ \A i \in 1..Len(log) : log[i] \in 0..100

\* a directory run of three folders, one of them skipped, has ended
C16_Witness ==
    /\ d_pc = "returned"
    /\ Len(d_progress) = 4
    /\ \E k \in 1..Len(d_folders) : <<"no_ppg", d_folders[k].name>> \in d_status

\* C17 as stated: a requested channel that the recording does not hold is
\* reported on the status signal and never on the error signal, and the other
\* requested channels are processed and appear in the result.
C17_AsStated ==
    /\ (f_pc = "returned" /\ f_file.read_ok /\ f_file.rate_ok) =>
          /\ \A ch \in Range(f_channels) \ ChannelSet :
                <<"channel_not_found", ch>> \notin f_error
          /\ f_finished = 1
          /\ Range(f_channels) \cap ChannelSet \subseteq f_results
    /\ (d_pc = "returned" /\ Subfolders(d_folders) # <<>> /\ ~TimeRangeError(d_cfg)) =>
          /\ d_error = 0
          /\ d_finished = 1
          /\ \A ch \in Range(d_cfg.channels) \cap ChannelSet :
                ("Time" \in d_results[ch].ppi_data.columns)
                    <=> (\E k \in 1..Len(Subfolders(d_folders)) :
                            EpochOutcome(Subfolders(d_folders)[k], d_cfg) = "processed")
    /\ (b_pc = "returned" /\ participant_folders # <<>>
            /\ Range(b_channels) \ ChannelSet # {}) =>
          /\ error_emitted = 0
          /\ finished_emitted = 1

\* an epoch folder of the directory that nothing keeps from being processed
GoodFolder(session, cfg) ==
    /\ session.has_ppg /\ session.read_ok /\ session.rate_ok
    /\ cfg.use_time_range => session.in_range

\* the PPI records (Time, PPI) one epoch gives for one channel
EpochRecords(session, ch, cfg) ==
    { <<row.Time, row.PPI>> :
        row \in Range(DataSample(session, ch, cfg.ppi_low_threshold,
                                 cfg.ppi_high_threshold).rows) }

C19_AsStated ==
    /\ (d_pc = "returned" /\ TimeRangeError(d_cfg)) =>
          (d_error >= 1 /\ d_finished = 0)
    /\ (b_pc = "returned" /\ b_channels # <<>> /\ TimeRangeError(BatchConfig)) =>
          (error_emitted >= 1 /\ finished_emitted = 0)

\* the values of one metric over the windows, the undefined ones left out
DefinedValues(rows, name) ==
    SelectSeq([i \in 1..Len(rows) |-> rows[i].metrics[name]], LAMBDA v : v.den # 0)

SomeUndefined(rows, name) == \E i \in 1..Len(rows) : rows[i].metrics[name].den = 0

\* the mean of the defined values of a metric, NaN where no window defines it
MeanOfDefined(rows, name) ==
    IF DefinedValues(rows, name) = <<>> THEN NaNFrac
    ELSE FracDiv(FracSum(DefinedValues(rows, name)),
                 Frac(Len(DefinedValues(rows, name)), 1))

RootMeanOfDefined(rows, name) ==
    IF DefinedValues(rows, name) = <<>> THEN NaNFrac
    ELSE [mean_of_roots |-> DefinedValues(rows, name)]

\* overall is the column-wise mean of the windows, undefined values skipped
IsSkipNaMean(overall, rows) ==
    /\ overall.present
    /\ overall.MeanNN = MeanOfDefined(rows, "MeanNN")
    /\ overall.MedianNN = MeanOfDefined(rows, "MedianNN")
    /\ overall.Mean_Quality = MeanOfDefined(rows, "Mean_Quality")
    /\ overall.SDNN = RootMeanOfDefined(rows, "SDNN_sq")
    /\ overall.RMSSD = RootMeanOfDefined(rows, "RMSSD_sq")
    /\ overall.SDSD = RootMeanOfDefined(rows, "SDSD_sq")

\* overall is NaN in every metric that some window leaves undefined
IsNaNPropagating(overall, rows) ==
    /\ SomeUndefined(rows, "MeanNN") => overall.MeanNN = NaNFrac
    /\ SomeUndefined(rows, "SDNN_sq") => overall.SDNN = NaNFrac
    /\ SomeUndefined(rows, "SDSD_sq") => overall.SDSD = NaNFrac

\* C20 as stated: overall_metrics is present whenever a window was emitted
\* for the channel, and a metric that is NaN in any window is NaN in it.
C20_AsStated ==
    /\ (d_pc = "returned" /\ d_finished = 1) =>
          \A ch \in DOMAIN d_results :
              d_results[ch].hrv_metrics.rows # <<>> =>
                  /\ d_results[ch].overall_metrics.present
                  /\ IsNaNPropagating(d_results[ch].overall_metrics,
                                      d_results[ch].hrv_metrics.rows)
    /\ (b_pc = "returned" /\ finished_emitted = 1) =>
          \A ch \in DOMAIN results :
              results[ch].hrv_metrics.rows # <<>> =>
                  /\ results[ch].overall_metrics.present
                  /\ IsNaNPropagating(results[ch].overall_metrics,
                                      results[ch].hrv_metrics.rows)

\* C20: for each channel with at least one emitted window, overall_metrics
\* is the column-wise mean of the windows with the undefined values skipped:
\* a metric is NaN in it only when every window leaves it undefined.  In
\* directory mode it is always present; in participant-batch mode, where the
\* combined windows carry the Folder and Participant strings, it is present
\* exactly when mean() leaves string columns out instead of raising.
C20_SkipNaMean ==
    /\ (d_pc = "returned" /\ d_finished = 1) =>
          \A ch \in DOMAIN d_results :
              d_results[ch].hrv_metrics.rows # <<>> =>
                  IsSkipNaMean(d_results[ch].overall_metrics,
                               d_results[ch].hrv_metrics.rows)
    /\ (b_pc = "returned" /\ finished_emitted = 1) =>
          \A ch \in DOMAIN results :
              results[ch].hrv_metrics.rows # <<>> =>
                  IF pandas_drops_nuisance
                  THEN IsSkipNaMean(results[ch].overall_metrics,
                                    results[ch].hrv_metrics.rows)
                  ELSE ~results[ch].overall_metrics.present

\* a directory run has ended with two windows of P0, SDSD undefined in one
\* and defined in the other, and the overall SDSD is defined
C20_Witness ==
    /\ d_pc = "returned"
    /\ d_finished = 1
    /\ "P0" \in DOMAIN d_results
    /\ Len(d_results["P0"].hrv_metrics.rows) >= 2
    /\ SomeUndefined(d_results["P0"].hrv_metrics.rows, "SDSD_sq")
    /\ d_results["P0"].overall_metrics.present
    /\ d_results["P0"].overall_metrics.SDSD # NaNFrac

----------------------------------------------------------------------------
(* Empty inputs, session names, windows over several epochs                 *)

\* the directory holds no subfolder with a numeric name
NoNumericFolder == \A k \in 1..Len(d_folders) : ~d_folders[k].numeric

\* C21: a run that finds no input unit (directory mode: no numeric-named
\* subfolder; participant-batch mode: no participant folder) emits the error
\* signal exactly once, processes nothing and never emits
\* finished_with_result.
C21_NoUnitsAborts ==
    /\ (d_pc \notin {"idle", "start"} /\ NoNumericFolder) =>
          /\ d_pc = "returned"
          /\ d_error = 1
          /\ d_finished = 0
          /\ d_progress = <<>>
          /\ d_status = {}
          /\ d_results = NoResults
    /\ (b_pc \notin {"idle", "start"} /\ participant_folders = <<>>) =>
          /\ b_pc = "returned"
          /\ error_emitted = 1
          /\ finished_emitted = 0
          /\ b_progress = <<>>
          /\ results = NoResults

\* a directory that holds only a folder with a name that is not a number has
\* been run
C21_Witness ==
    /\ d_pc = "returned"
    /\ Len(d_folders) >= 1
    /\ NoNumericFolder
    /\ d_error = 1

\* the PPI records (Time, PPI) of a channel in the emitted batch result
BatchRecords(ch) ==
    IF IsEmpty(results[ch].ppi_data) THEN {}
    ELSE { <<row.Time, row.PPI>> : row \in Range(results[ch].ppi_data.rows) }

\* the batch has gone through all its participants and emitted its result
BatchCompleted ==
    /\ b_pc = "returned"
    /\ finished_emitted = 1
    /\ b_i > Len(participant_folders)
    /\ calculate_hrv
    /\ ~TimeRangeError(BatchConfig)

\* C22 as stated: in participant-batch mode every session subfolder of a
\* participant that holds a usable ppg.csv contributes its PPI records to the
\* result, whatever the subfolder is named.
C22_AsStated ==
    BatchCompleted =>
        \A i \in 1..Len(participant_folders) :
            \A k \in 1..Len(participant_folders[i].sessions) :
                LET session == participant_folders[i].sessions[k]
                IN  GoodFolder(session, BatchConfig) =>
                        \A ch \in Range(b_channels) \cap ChannelSet :
                            EpochRecords(session, ch, BatchConfig) \subseteq BatchRecords(ch)

\* the PPI records of a channel over all the epochs the run processes, in
\* the order of the folders
RECURSIVE UnionOfEpochs(_, _, _)
UnionOfEpochs(folders, ch, cfg) ==
    IF folders = <<>> THEN <<>>
    ELSE (IF GoodFolder(Head(folders), cfg)
          THEN DataSample(Head(folders), ch, cfg.ppi_low_threshold,
                          cfg.ppi_high_threshold).rows
          ELSE <<>>)
         \o UnionOfEpochs(Tail(folders), ch, cfg)

\* a window as its interval and its metrics
WindowsOf(rows) ==
    [i \in 1..Len(rows) |-> [Start_Time |-> rows[i].Start_Time,
                             End_Time |-> rows[i].End_Time,
                             metrics |-> rows[i].metrics]]

\* a directory run with the HRV switch on has emitted its result
DirCompleted ==
    /\ d_pc = "returned"
    /\ d_finished = 1
    /\ d_cfg.calculate_hrv

\* C23: in directory mode the HRV windows of a channel are the output of one
\* run of the windower over the time-sorted union of the PPI records of all
\* epochs, and two records that follow each other in the union, come from
\* different epochs, are at most one minute apart and within the budget of
\* the window that holds the first are in the same window.
C23_OneRunOverUnion ==
    DirCompleted =>
        \A ch \in Range(d_cfg.channels) \cap ChannelSet :
            LET union == SortRows(UnionOfEpochs(Subfolders(d_folders), ch, d_cfg))
                windows == d_results[ch].hrv_metrics.rows
            IN  /\ WindowsOf(windows)
                      = WindowsOf(calculate_hrv_metrics(union, d_cfg.window_size))
                /\ \A i \in 1..(Len(union) - 1) : \A k \in 1..Len(windows) :
                      ( /\ union[i].Folder # union[i + 1].Folder
                        /\ union[i + 1].Time - union[i].Time <= Minutes(1)
                        /\ windows[k].Start_Time <= union[i].Time
                        /\ union[i].Time <= windows[k].End_Time
                        /\ union[i + 1].Time - windows[k].Start_Time
                              <= Minutes(d_cfg.window_size) )
                      => union[i + 1].Time <= windows[k].End_Time

\* a window of P0 begins in the first epoch and ends in the second
C23_Witness ==
    /\ DirCompleted
    /\ Len(Subfolders(d_folders)) >= 2
    /\ "P0" \in DOMAIN d_results
    /\ \E k \in 1..Len(d_results["P0"].hrv_metrics.rows) :
          /\ d_results["P0"].hrv_metrics.rows[k].Start_Time < 130000
          /\ d_results["P0"].hrv_metrics.rows[k].End_Time > 130000

\* the folders of the records of a table with this timestamp
FoldersOfTime(ppi_rows, t) ==
    { ppi_rows[i].Folder : i \in { j \in 1..Len(ppi_rows) : ppi_rows[j].Time = t } }

\* C24 as stated: in directory mode every emitted HRV window carries a Folder
\* tag, the folder of the PPI record nearest to its Start_Time, which is the
\* window's own first record, also when the row labels of the PPI records
\* repeat across epochs.
C24_AsStated ==
    DirCompleted =>
        \A ch \in Range(d_cfg.channels) \cap ChannelSet :
            \A k \in 1..Len(d_results[ch].hrv_metrics.rows) :
                d_results[ch].hrv_metrics.rows[k].Folder
                    \in FoldersOfTime(d_results[ch].ppi_data.rows,
                                      d_results[ch].hrv_metrics.rows[k].Start_Time)

----------------------------------------------------------------------------
(* The bounds of the time-of-day window, the PPI records, the windows       *)

\* the samples of the table at this clock time
SamplesAtClock(hhmm) == { t \in Range(ppg_index) : TimeOfDay(t) = Strptime(hhmm) }

\* the samples of the table that went through the filter
KeptSamples == { t - DeltaTime : t \in Range(tr_kept) }

\* the filter was on, accepted the configuration and was applied
FilterApplied == use_time_range /\ tr_pc \in {"filtered", "empty_skipped", "done"}

\* C25 as stated: the time-of-day window is half-open: a sample whose clock
\* time equals start is kept and a sample whose clock time equals end is
\* rejected.
C25_AsStated ==
    FilterApplied =>
        /\ SamplesAtClock(start_time) \subseteq KeptSamples
        /\ SamplesAtClock(end_time) \cap KeptSamples = {}

\* C25: the time-of-day window is closed at both ends: a sample whose clock
\* time equals start is kept and a sample whose clock time equals end is kept.
C25_ClosedWindow ==
    FilterApplied =>
        /\ SamplesAtClock(start_time) \subseteq KeptSamples
        /\ SamplesAtClock(end_time) \subseteq KeptSamples

\* a table with a sample at 22:00 and a sample at 05:00 went through the
\* filter from 22:00 to 05:00
C25_Witness ==
    /\ FilterApplied
    /\ start_time = <<22, 0>> /\ end_time = <<5, 0>>
    /\ SamplesAtClock(start_time) # {}
    /\ SamplesAtClock(end_time) # {}
    /\ Len(tr_kept) >= 2

\* the rows of the emitted PPI table that come from the beat with this label
RecordsOfBeat(label) == { k \in 1..Len(ppi_data.rows) : ppi_data.rows[k].label = label }

\* the gap of the i-th beat of the time-sorted sequence to the beat before it
GapBefore(i) == ppi_sorted[i].Time - ppi_sorted[i - 1].Time

\* C26: of the time-sorted beats exactly the first beat and the beats whose
\* gap to the beat before them is outside the inclusive band [low, high] are
\* dropped; every other beat is emitted exactly once, and its PPI is its gap
\* to the beat immediately before it, whether that beat was kept or not.
C26_ExactlyOutliersDropped ==
    ppi_pc \in {"dir_done", "file_done", "clean_done"} =>
        /\ \A i \in 1..Len(ppi_sorted) :
              IF i > 1 /\ ppi_low <= GapBefore(i) /\ GapBefore(i) <= ppi_high
              THEN /\ Cardinality(RecordsOfBeat(ppi_sorted[i].label)) = 1
                   /\ \A k \in RecordsOfBeat(ppi_sorted[i].label) :
                         /\ ppi_data.rows[k].PPI = GapBefore(i)
                         /\ ppi_data.rows[k].Time = ppi_sorted[i].Time
              ELSE RecordsOfBeat(ppi_sorted[i].label) = {}
        /\ \A k \in 1..Len(ppi_data.rows) :
              \E i \in 1..Len(ppi_sorted) : ppi_sorted[i].label = ppi_data.rows[k].label

\* a beat was kept whose predecessor was rejected, and a kept beat has its
\* PPI on the lower bound of the band
C26_Witness ==
    /\ ppi_pc = "dir_done"
    /\ \E i \in 3..Len(ppi_sorted) :
          /\ RecordsOfBeat(ppi_sorted[i].label) # {}
          /\ RecordsOfBeat(ppi_sorted[i - 1].label) = {}
    /\ \E k \in 1..Len(ppi_data.rows) : ppi_data.rows[k].PPI = ppi_low

\* the input records whose timestamp lies in the closed interval of a window
RecordsIn(win) == { i \in 1..Len(data) : win.Start_Time <= data[i].Time
                                         /\ data[i].Time <= win.End_Time }

\* C27: for a time-sorted input the emitted windows come in increasing time
\* order with disjoint closed intervals (each Start_Time is strictly after
\* the End_Time of the window before), Start_Time and End_Time are the
\* timestamps of the first and the last record of the bin, and
\* Num_Data_Points is the number of input records with a timestamp in
\* [Start_Time, End_Time].
C27_DisjointWindows ==
    (hrv_pc = "done" /\ IsTimeSorted(data)) =>
        /\ \A k \in 1..(Len(hrv_results) - 1) :
              hrv_results[k].End_Time < hrv_results[k + 1].Start_Time
        /\ \A k \in 1..Len(hrv_results) :
              /\ hrv_results[k].Start_Time <= hrv_results[k].End_Time
              /\ \E i \in RecordsIn(hrv_results[k]) :
                    /\ data[i].Time = hrv_results[k].Start_Time
                    /\ i = 1 \/ data[i - 1].Time < hrv_results[k].Start_Time
              /\ \E j \in RecordsIn(hrv_results[k]) :
                    /\ data[j].Time = hrv_results[k].End_Time
                    /\ j = Len(data) \/ data[j + 1].Time > hrv_results[k].End_Time
              /\ hrv_results[k].metrics.Num_Data_Points
                    = Cardinality(RecordsIn(hrv_results[k]))

\* two windows came out of an input with two records at the same time
C27_Witness ==
    /\ hrv_pc = "done"
    /\ Len(hrv_results) >= 2
    /\ \E i \in 1..(Len(data) - 1) : data[i].Time = data[i + 1].Time

\* the PPI records (Time, PPI) of a channel that the epochs give when no
\* timestamp is moved
UnshiftedRecords(ch) ==
    UNION { EpochRecords(Subfolders(d_folders)[k], ch, d_cfg) :
              k \in { j \in 1..Len(Subfolders(d_folders)) :
                        GoodFolder(Subfolders(d_folders)[j], d_cfg) } }

\* C28: with the time range filter on, every emitted PPI record has the Time
\* of its sample as reconstructed from the file and the PPI it has without
\* the shift, and every HRV window begins and ends at such a Time, for every
\* requested channel of every epoch.
C28_ShiftUndone ==
    (d_pc = "returned" /\ d_finished = 1 /\ d_cfg.use_time_range) =>
        \A ch \in Range(d_cfg.channels) \cap ChannelSet :
            /\ { <<row.Time, row.PPI>> : row \in Range(d_results[ch].ppi_data.rows) }
                  = UnshiftedRecords(ch)
            /\ \A k \in 1..Len(d_results[ch].hrv_metrics.rows) :
                  \A t \in {d_results[ch].hrv_metrics.rows[k].Start_Time,
                            d_results[ch].hrv_metrics.rows[k].End_Time} :
                      \E rec \in UnshiftedRecords(ch) : rec[1] = t

\* a filtered run of two epochs has emitted records and a window for both
\* channels
C28_Witness ==
    /\ d_pc = "returned" /\ d_finished = 1 /\ d_cfg.use_time_range
    /\ Cardinality({ j \in 1..Len(Subfolders(d_folders)) :
                       GoodFolder(Subfolders(d_folders)[j], d_cfg) }) >= 2
    /\ \A ch \in {"P0", "P1"} :
          /\ ch \in DOMAIN d_results
          /\ Len(d_results[ch].ppi_data.rows) >= 2
          /\ d_results[ch].hrv_metrics.rows # <<>>

----------------------------------------------------------------------------
(* The error signal and the stop request                                    *)

\* C29 as stated: in every worker the error signal ends the run: once it has
\* been emitted nothing more is processed and finished_with_result is never
\* emitted, so that no run ends with both an error and results.
C29_AsStated ==
    /\ f_error # {} => (f_pc = "returned" /\ f_finished = 0)
    /\ d_error >= 1 => (d_pc = "returned" /\ d_finished = 0)
    /\ error_emitted >= 1 => (b_pc = "returned" /\ finished_emitted = 0)

\* C30 as stated: a stop request is never lost: whenever stop() is called
\* after the BatchWorker was started, also before run() has executed its
\* first statements, the request is still pending when the loop is reached,
\* and with a request pending the loop begins no participant.
C30_AsStated ==
    [][/\ (should_stop /\ b_pc = "start" /\ b_pc' = "loop") => should_stop'
       /\ (should_stop /\ b_pc = "loop") => b_pc' # "participant"]_vars

====
